---- MODULE Spec2Model ----
(***************************************************************************)
(* A model of beautysh, the Bash beautifier.                               *)
(*                                                                         *)
(* Strings are sequences of one-character strings.  Regular expressions    *)
(* of the source are written out as operators over such sequences: the     *)
(* name of each operator is the name of the compiled pattern or of the     *)
(* method that applies it.                                                 *)
(***************************************************************************)
EXTENDS Integers, Sequences, FiniteSets, TLC

(***************************************************************************)
(* Characters and character classes of Python's re module                  *)
(***************************************************************************)
NL == "\n"
TAB == "\t"
BSL == "\\"
DQ == "\""
SQ == "'"
\* the backquote character (written as a symbol: it cannot be typed in a string here)
BQ == "<bq>"

Lower == {"a","b","c","d","e","f","g","h","i","j","k","l","m",
          "n","o","p","q","r","s","t","u","v","w","x","y","z"}
Upper == {"A","B","C","D","E","F","G","H","I","J","K","L","M",
          "N","O","P","Q","R","S","T","U","V","W","X","Y","Z"}
Digit == {"0","1","2","3","4","5","6","7","8","9"}

\* \s restricted to the characters of one line
IsSpace(c) == c \in {" ", TAB}
\* \w
IsWord(c) == c \in Lower \cup Upper \cup Digit \cup {"_"}
\* [a-zA-Z_]
IsIdentStart(c) == c \in Lower \cup Upper \cup {"_"}

(***************************************************************************)
(* Python str methods                                                      *)
(***************************************************************************)
\* s[i:] with i counted from 1
From(s, i) == SubSeq(s, i, Len(s))

\* s.startswith(lit, i-1)
StartsAt(s, i, lit) ==
    /\ i >= 1
    /\ i + Len(lit) - 1 <= Len(s)
    /\ SubSeq(s, i, i + Len(lit) - 1) = lit

\* lit in s
Contains(s, lit) == \E i \in 1..(Len(s) + 1) : StartsAt(s, i, lit)

\* s.count(c) for a single character c
CountChar(s, c) == Cardinality({i \in 1..Len(s) : s[i] = c})

RECURSIVE rstrip(_)
rstrip(s) ==
    IF s = <<>> THEN s
    ELSE IF IsSpace(s[Len(s)]) THEN rstrip(SubSeq(s, 1, Len(s) - 1))
    ELSE s

RECURSIVE lstrip(_)
lstrip(s) ==
    IF s = <<>> THEN s
    ELSE IF IsSpace(s[1]) THEN lstrip(Tail(s))
    ELSE s

strip(s) == lstrip(rstrip(s))

\* s.lstrip('\t')
RECURSIVE lstripTabs(_)
lstripTabs(s) ==
    IF s = <<>> THEN s
    ELSE IF s[1] = TAB THEN lstripTabs(Tail(s))
    ELSE s

\* data.split("\n"): the pieces between the newlines of s
split(s) ==
    LET newlines == {i \in 1..Len(s) : s[i] = NL}
        \* the position of the k-th newline; 0 before the first piece and
        \* Len(s) + 1 after the last
        cut(k) == IF k = 0 THEN 0
                  ELSE IF k > Cardinality(newlines) THEN Len(s) + 1
                  ELSE CHOOSE i \in newlines : Cardinality({j \in newlines : j < i}) = k - 1
    IN  [k \in 1..(Cardinality(newlines) + 1) |-> SubSeq(s, cut(k - 1) + 1, cut(k) - 1)]

\* "\n".join(lines)
RECURSIVE join(_)
join(ls) ==
    IF ls = <<>> THEN <<>>
    ELSE IF Len(ls) = 1 THEN ls[1]
    ELSE ls[1] \o <<NL>> \o join(Tail(ls))

\* c * n
RECURSIVE Repeat(_, _)
Repeat(c, n) == IF n <= 0 THEN <<>> ELSE <<c>> \o Repeat(c, n - 1)

(***************************************************************************)
(* Regular-expression machinery: re.sub / re.findall scan the subject left *)
(* to right and continue after each match; M(s, i) is the length of the    *)
(* match that starts at position i, or -1.                                 *)
(***************************************************************************)
\* index of the first occurrence of character c at or after i, or 0
RECURSIVE IndexFrom(_, _, _)
IndexFrom(s, i, c) ==
    IF i > Len(s) THEN 0
    ELSE IF s[i] = c THEN i
    ELSE IndexFrom(s, i + 1, c)

\* re.sub(open .*? close, "", s): open is a literal, close one character
RECURSIVE RemoveDelimited(_, _, _, _)
RemoveDelimited(s, i, open, close) ==
    IF i > Len(s) THEN <<>>
    ELSE IF StartsAt(s, i, open) /\ IndexFrom(s, i + Len(open), close) # 0
         THEN RemoveDelimited(s, IndexFrom(s, i + Len(open), close) + 1, open, close)
    ELSE <<s[i]>> \o RemoveDelimited(s, i + 1, open, close)

\* re.sub(lit, "", s) for a literal lit
RECURSIVE RemoveLiteral(_, _, _)
RemoveLiteral(s, i, lit) ==
    IF i > Len(s) THEN <<>>
    ELSE IF StartsAt(s, i, lit) THEN RemoveLiteral(s, i + Len(lit), lit)
    ELSE <<s[i]>> \o RemoveLiteral(s, i + 1, lit)

\* ESCAPED_CHAR = \\. removed everywhere
RECURSIVE RemoveEscapedChar(_, _)
RemoveEscapedChar(s, i) ==
    IF i > Len(s) THEN <<>>
    ELSE IF s[i] = BSL /\ i < Len(s) THEN RemoveEscapedChar(s, i + 2)
    ELSE <<s[i]>> \o RemoveEscapedChar(s, i + 1)

\* COMMENT = (\A|\s)(#.*) removed once: position of the "#" that starts
\* the leftmost match, or 0
RECURSIVE CommentHash(_, _)
CommentHash(s, i) ==
    IF i > Len(s) THEN 0
    ELSE IF s[i] = "#" /\ (i = 1 \/ IsSpace(s[i - 1])) THEN i
    ELSE CommentHash(s, i + 1)

RemoveComment(s) ==
    LET h == CommentHash(s, 1)
    IN  IF h = 0 THEN s
        ELSE IF h = 1 THEN <<>>
        ELSE SubSeq(s, 1, h - 2)

\* BashParser.get_test_record
get_test_record(source_line) ==
    LET t1 == RemoveLiteral(source_line, 1, <<BSL, SQ>>)
        t2 == RemoveLiteral(t1, 1, <<BSL, DQ>>)
        t3 == RemoveDelimited(t2, 1, <<SQ>>, SQ)
        t4 == RemoveDelimited(t3, 1, <<DQ>>, DQ)
        t5 == RemoveDelimited(t4, 1, <<BQ>>, BQ)
        t6 == RemoveDelimited(t5, 1, <<BSL, BQ>>, SQ)
        t7 == RemoveEscapedChar(t6, 1)
    IN  RemoveComment(t7)

(***************************************************************************)
(* Literals of the source                                                  *)
(***************************************************************************)
KwCase == <<"c","a","s","e">>
KwThen == <<"t","h","e","n">>
KwDo == <<"d","o">>
KwEsac == <<"e","s","a","c">>
KwFi == <<"f","i">>
KwDone == <<"d","o","n","e">>
KwElif == <<"e","l","i","f">>
KwElse == <<"e","l","s","e">>
KwFunction == <<"f","u","n","c","t","i","o","n">>
LtLt == <<"<","<">>
LtLtLt == <<"<","<","<">>
FormatterOffText == <<"@","f","o","r","m","a","t","t","e","r",":","o","f","f">>
FormatterOnText == <<"@","f","o","r","m","a","t","t","e","r",":","o","n">>

\* the character at position i, or the empty string outside the subject
At(s, i) == IF i >= 1 /\ i <= Len(s) THEN s[i] ELSE ""

\* \b at position i (between s[i-1] and s[i])
WordBoundary(s, i) == IsWord(At(s, i - 1)) # IsWord(At(s, i))

\* first position at or after i that holds no whitespace
RECURSIVE SkipSpaces(_, _)
SkipSpaces(s, i) ==
    IF i <= Len(s) /\ IsSpace(s[i]) THEN SkipSpaces(s, i + 1) ELSE i

\* first position at or after i that holds no \w character
RECURSIVE SkipWord(_, _)
SkipWord(s, i) ==
    IF i <= Len(s) /\ IsWord(s[i]) THEN SkipWord(s, i + 1) ELSE i

(***************************************************************************)
(* constants.py: the keyword patterns.  A match is reported by the         *)
(* position just after it, 0 meaning no match at that start.               *)
(***************************************************************************)
\* the start positions of the keyword the alternatives of (\s|\A|;) allow,
\* in the order the alternatives are tried
KeywordStarts(s, p) ==
    (IF IsSpace(At(s, p)) THEN <<p + 1>> ELSE <<>>)
    \o (IF p = 1 THEN <<1>> ELSE <<>>)
    \o (IF At(s, p) = ";" THEN <<p + 1>> ELSE <<>>)

\* (;|\Z|\s) at position e
IncreaseSuffix(s, e) ==
    IF At(s, e) = ";" THEN e + 1
    ELSE IF e = Len(s) + 1 THEN e
    ELSE IF IsSpace(At(s, e)) THEN e + 1
    ELSE 0

\* (;|\)|\||\Z|\s) at position e
DecreaseSuffix(s, e) ==
    IF At(s, e) \in {";", ")", "|"} THEN e + 1
    ELSE IF e = Len(s) + 1 THEN e
    ELSE IF IsSpace(At(s, e)) THEN e + 1
    ELSE 0

\* one keyword of kws at position k followed by the suffix: end of match or 0
RECURSIVE KeywordAt(_, _, _, _)
KeywordAt(s, k, kws, dec) ==
    IF kws = <<>> THEN 0
    ELSE LET kw == Head(kws)
             e == IF StartsAt(s, k, kw)
                  THEN (IF dec THEN DecreaseSuffix(s, k + Len(kw))
                        ELSE IncreaseSuffix(s, k + Len(kw)))
                  ELSE 0
         IN  IF e # 0 THEN e ELSE KeywordAt(s, k, Tail(kws), dec)

RECURSIVE KeywordMatchFrom(_, _, _, _)
KeywordMatchFrom(s, starts, kws, dec) ==
    IF starts = <<>> THEN 0
    ELSE LET e == KeywordAt(s, Head(starts), kws, dec)
         IN  IF e # 0 THEN e ELSE KeywordMatchFrom(s, Tail(starts), kws, dec)

\* len(pattern.findall(s)) for the two keyword patterns
RECURSIVE CountKeywords(_, _, _, _)
CountKeywords(s, p, kws, dec) ==
    IF p > Len(s) + 1 THEN 0
    ELSE LET e == KeywordMatchFrom(s, KeywordStarts(s, p), kws, dec)
         IN  IF e = 0 THEN CountKeywords(s, p + 1, kws, dec)
             ELSE 1 + CountKeywords(s, IF e > p THEN e ELSE p + 1, kws, dec)

\* INDENT_INCREASE_KEYWORDS = (\s|\A|;)(case|then|do)(;|\Z|\s)
INDENT_INCREASE_KEYWORDS(s) == CountKeywords(s, 1, <<KwCase, KwThen, KwDo>>, FALSE)

\* the keyword fi mutated away
INDENT_DECREASE_KEYWORDS_no_fi(s) ==
    CountKeywords(s, 1, <<KwEsac, KwDone, KwElif>>, TRUE)

\* INDENT_DECREASE_KEYWORDS = (\s|\A|;)(esac|fi|done|elif)(;|\)|\||\Z|\s)
INDENT_DECREASE_KEYWORDS(s) ==
    CountKeywords(s, 1, <<KwEsac, KwFi, KwDone, KwElif>>, TRUE)

CountIn(s, set) == Cardinality({i \in 1..Len(s) : s[i] \in set})

\* OPENING_BRACKETS, CLOSING_BRACKETS, SQUARE_BRACKET_OPEN, SQUARE_BRACKET_CLOSE
OPENING_BRACKETS(s) == CountIn(s, {"{", "(", "["})
CLOSING_BRACKETS(s) == CountIn(s, {"}", ")", "]"})
SQUARE_BRACKET_OPEN(s) == CountIn(s, {"["})
SQUARE_BRACKET_CLOSE(s) == CountIn(s, {"]"})

\* CASE_KEYWORD_PATTERN = (\s|\A|;)case\s
CASE_KEYWORD_PATTERN(s) ==
    \E p \in 1..(Len(s) + 1) :
        \E j \in 1..Len(KeywordStarts(s, p)) :
            LET k == KeywordStarts(s, p)[j]
            IN  StartsAt(s, k, KwCase) /\ IsSpace(At(s, k + 4))

\* ESAC_KEYWORD_PATTERN = \besac\b
ESAC_KEYWORD_PATTERN(s) ==
    \E k \in 1..Len(s) :
        StartsAt(s, k, KwEsac) /\ WordBoundary(s, k) /\ WordBoundary(s, k + 4)

\* CASE_CHOICE_PATTERN = \A[^(]+\)
CASE_CHOICE_PATTERN(s) ==
    \E j \in 2..Len(s) : s[j] = ")" /\ \A i \in 1..(j - 1) : s[i] # "("

\* ELSE_ELIF_PATTERN = ^(else|elif\s.*?;\s+?then)
ELSE_ELIF_PATTERN(s) ==
    \/ StartsAt(s, 1, KwElse)
    \/ /\ StartsAt(s, 1, KwElif)
       /\ IsSpace(At(s, 5))
       /\ \E j \in 6..Len(s) :
              /\ s[j] = ";"
              /\ IsSpace(At(s, j + 1))
              /\ StartsAt(s, SkipSpaces(s, j + 1), KwThen)

\* LINE_CONTINUATION = \\$
LINE_CONTINUATION(s) == s # <<>> /\ s[Len(s)] = BSL

\* MULTILINE_STRING_START = "[^"]*?\\$ : whether subn replaces anything
MULTILINE_STRING_START(s) ==
    /\ s # <<>>
    /\ s[Len(s)] = BSL
    /\ \E i \in 1..(Len(s) - 1) : s[i] = DQ

\* MULTILINE_STRING_END = ^[^"]*" : the subject after subn("", ...)
MULTILINE_STRING_END(s) ==
    LET q == IndexFrom(s, 1, DQ)
    IN  IF q = 0 THEN s ELSE From(s, q + 1)

\* #\s*<text>, searched anywhere in the line
DirectiveIn(s, text) ==
    \E i \in 1..Len(s) : s[i] = "#" /\ StartsAt(s, SkipSpaces(s, i + 1), text)

\* FORMATTER_OFF_DIRECTIVE = #\s*@formatter:off
FORMATTER_OFF_DIRECTIVE(s) == DirectiveIn(s, FormatterOffText)

\* FORMATTER_ON_DIRECTIVE = #\s*@formatter:on
FORMATTER_ON_DIRECTIVE(s) == DirectiveIn(s, FormatterOnText)

(***************************************************************************)
(* parser.py: BashParser                                                   *)
(***************************************************************************)
\* BashParser.detect_unclosed_quote
detect_unclosed_quote(test_record) ==
    [double |-> CountChar(test_record, DQ) % 2 = 1,
     single |-> CountChar(test_record, SQ) % 2 = 1]

\* BashParser.is_line_continuation
is_line_continuation(line) == LINE_CONTINUATION(line)

\* HEREDOC_PATTERN = <<-?
HEREDOC_PATTERN(s) == Contains(s, LtLt)

\* HERESTRING_PATTERN = .*<<<
HERESTRING_PATTERN(s) == Contains(s, LtLtLt)

\* ARITHMETIC_PATTERN = \$\(\(.*<<.*\)\)
ARITHMETIC_PATTERN(s) ==
    \E i \in 1..Len(s) :
        /\ StartsAt(s, i, <<"$", "(", "(">>)
        /\ \E j \in (i + 3)..Len(s) :
               /\ StartsAt(s, j, LtLt)
               /\ \E k \in (j + 2)..Len(s) : StartsAt(s, k, <<")", ")">>)

\* [_|\w]
IsTerminatorChar(c) == IsWord(c) \/ c = "|"

RECURSIVE SkipTerminator(_, _)
SkipTerminator(s, i) ==
    IF i <= Len(s) /\ IsTerminatorChar(s[i]) THEN SkipTerminator(s, i + 1) ELSE i

\* where group 1 of HEREDOC_TERMINATOR starts when "<<" is matched at j, or 0
TerminatorStart(s, j) ==
    IF ~StartsAt(s, j, LtLt) THEN 0
    ELSE LET a == IF At(s, j + 2) = "-" THEN j + 3 ELSE j + 2
             q == SkipSpaces(s, a)
         IN  IF At(s, q) \in {SQ, "|", DQ} /\ IsTerminatorChar(At(s, q + 1)) THEN q + 1
             ELSE IF IsTerminatorChar(At(s, q)) THEN q
             ELSE 0

\* the greedy leading .* takes the last "<<" that lets the pattern match
RECURSIVE LastTerminatorStart(_, _)
LastTerminatorStart(s, j) ==
    IF j < 1 THEN 0
    ELSE IF TerminatorStart(s, j) # 0 THEN TerminatorStart(s, j)
    ELSE LastTerminatorStart(s, j - 1)

\* HEREDOC_TERMINATOR.sub(r"\1", s, 1)
\*   HEREDOC_TERMINATOR = .*<<-?\s*['|"]?([_|\w]+)['|"]?.*
HEREDOC_TERMINATOR(s) ==
    LET g == LastTerminatorStart(s, Len(s))
    IN  IF g = 0 THEN s ELSE SubSeq(s, g, SkipTerminator(s, g) - 1)

\* BashParser.detect_heredoc
detect_heredoc(test_record, stripped_record) ==
    IF /\ HEREDOC_PATTERN(test_record)
       /\ ~HERESTRING_PATTERN(test_record)
       /\ ~ARITHMETIC_PATTERN(test_record)
    THEN [is_heredoc |-> Len(HEREDOC_TERMINATOR(stripped_record)) > 0,
          here_string |-> HEREDOC_TERMINATOR(stripped_record)]
    ELSE [is_heredoc |-> FALSE, here_string |-> <<>>]

\* [\w:@-]
IsFunctionNameChar(c) == IsWord(c) \/ c \in {":", "@", "-"}

RECURSIVE SkipFunctionName(_, _)
SkipFunctionName(s, i) ==
    IF i <= Len(s) /\ IsFunctionNameChar(s[i]) THEN SkipFunctionName(s, i + 1) ELSE i

\* \s*\(\s*\)\s* at position n: the position after the match, or 0
Parens(s, n) ==
    LET c == SkipSpaces(s, n)
        d == SkipSpaces(s, c + 1)
    IN  IF At(s, c) = "(" /\ At(s, d) = ")" THEN SkipSpaces(s, d + 1) ELSE 0

NoMatch == [end |-> 0, name |-> <<>>]

\* FUNCTION_STYLE_PATTERNS[style] matched at position k: the end of the match
\* and group 1
\*   0: \bfunction\s+([\w:@-]+)\s*\(\s*\)\s*
\*   1: \bfunction\s+([\w:@-]+)\s*
\*   2: \b\s*([\w:@-]+)\s*\(\s*\)\s*
FunctionStyleMatchAt(s, k, style) ==
    IF ~WordBoundary(s, k) THEN NoMatch
    ELSE IF style \in {0, 1}
    THEN LET b == SkipSpaces(s, k + 8)
             n == SkipFunctionName(s, b)
         IN  IF ~(StartsAt(s, k, KwFunction) /\ b > k + 8 /\ n > b) THEN NoMatch
             ELSE IF style = 1
                  THEN [end |-> SkipSpaces(s, n), name |-> SubSeq(s, b, n - 1)]
             ELSE IF Parens(s, n) = 0 THEN NoMatch
             ELSE [end |-> Parens(s, n), name |-> SubSeq(s, b, n - 1)]
    ELSE LET b == SkipSpaces(s, k)
             n == SkipFunctionName(s, b)
         IN  IF n = b \/ Parens(s, n) = 0 THEN NoMatch
             ELSE [end |-> Parens(s, n), name |-> SubSeq(s, b, n - 1)]

\* re.search(FUNCTION_STYLE_PATTERNS[style], s)
FunctionStyleSearch(s, style) ==
    \E k \in 1..(Len(s) + 1) : FunctionStyleMatchAt(s, k, style).end # 0

NoStyle == -1

\* BashParser.detect_function_style; NoStyle stands for None
detect_function_style(test_record) ==
    IF FunctionStyleSearch(test_record, 0) THEN 0
    ELSE IF FunctionStyleSearch(test_record, 1) THEN 1
    ELSE IF FunctionStyleSearch(test_record, 2) THEN 2
    ELSE NoStyle

(***************************************************************************)
(* transformers.py: StyleTransformer                                       *)
(***************************************************************************)
\* FUNCTION_STYLE_REPLACEMENTS[style] with group 1 filled in
FUNCTION_STYLE_REPLACEMENTS(style, name) ==
    IF style = 0 THEN KwFunction \o <<" ">> \o name \o <<"(", ")", " ">>
    ELSE IF style = 1 THEN KwFunction \o <<" ">> \o name \o <<" ">>
    ELSE name \o <<"(", ")", " ">>

\* re.sub(FUNCTION_STYLE_PATTERNS[detected], FUNCTION_STYLE_REPLACEMENTS[target], s)
RECURSIVE FunctionStyleSub(_, _, _, _)
FunctionStyleSub(s, k, detected, target) ==
    IF k > Len(s) THEN <<>>
    ELSE LET m == FunctionStyleMatchAt(s, k, detected)
         IN  IF m.end = 0
             THEN <<s[k]>> \o FunctionStyleSub(s, k + 1, detected, target)
             ELSE FUNCTION_STYLE_REPLACEMENTS(target, m.name)
                  \o FunctionStyleSub(s, m.end, detected, target)

\* StyleTransformer.change_function_style
change_function_style(stripped_record, detected_style, target_style) ==
    IF detected_style = NoStyle THEN stripped_record
    ELSE IF target_style = NoStyle THEN stripped_record
    ELSE strip(FunctionStyleSub(stripped_record, 1, detected_style, target_style))

\* SIMPLE_VARIABLE.sub(r"${\1}", line)
\*   SIMPLE_VARIABLE = \$(?!{)([a-zA-Z_][a-zA-Z0-9_]*)\b
RECURSIVE SIMPLE_VARIABLE_sub(_, _)
SIMPLE_VARIABLE_sub(s, i) ==
    IF i > Len(s) THEN <<>>
    ELSE IF s[i] = "$" /\ IsIdentStart(At(s, i + 1))
         THEN <<"$", "{">> \o SubSeq(s, i + 1, SkipWord(s, i + 1) - 1) \o <<"}">>
              \o SIMPLE_VARIABLE_sub(s, SkipWord(s, i + 1))
    ELSE <<s[i]>> \o SIMPLE_VARIABLE_sub(s, i + 1)

NoVariableStyle == "None"
VARIABLE_STYLE_BRACES == "braces"

\* StyleTransformer.apply_variable_style
apply_variable_style(line, style) ==
    IF style # VARIABLE_STYLE_BRACES THEN line
    ELSE SIMPLE_VARIABLE_sub(line, 1)

\* SPACE_BEFORE_DOUBLE_SEMICOLON.sub(r"\1 ;;", line)
\*   SPACE_BEFORE_DOUBLE_SEMICOLON = (\S);;
RECURSIVE SPACE_BEFORE_DOUBLE_SEMICOLON_sub(_, _)
SPACE_BEFORE_DOUBLE_SEMICOLON_sub(s, i) ==
    IF i > Len(s) THEN <<>>
    ELSE IF ~IsSpace(s[i]) /\ StartsAt(s, i + 1, <<";", ";">>)
         THEN <<s[i], " ", ";", ";">> \o SPACE_BEFORE_DOUBLE_SEMICOLON_sub(s, i + 3)
    ELSE <<s[i]>> \o SPACE_BEFORE_DOUBLE_SEMICOLON_sub(s, i + 1)

\* StyleTransformer.ensure_space_before_double_semicolon
ensure_space_before_double_semicolon(line, in_case) ==
    IF ~in_case THEN line ELSE SPACE_BEFORE_DOUBLE_SEMICOLON_sub(line, 1)

(***************************************************************************)
(* types.py: FormatterState                                                *)
(***************************************************************************)
NoQuote == "None"

FormatterState ==
    [tab |-> 0,
     case_level |-> 0,
     prev_line_had_continue |-> FALSE,
     continue_line |-> FALSE,
     started_multiline_quoted_string |-> FALSE,
     ended_multiline_quoted_string |-> FALSE,
     open_brackets |-> 0,
     in_here_doc |-> FALSE,
     in_multiline_string |-> FALSE,
     multiline_string_quote_char |-> NoQuote,
     here_string |-> <<>>,
     heredoc_quoted |-> FALSE,
     formatter_enabled |-> TRUE]

(***************************************************************************)
(* formatter.py: BashFormatter.  A configuration cfg holds the fields set  *)
(* by __init__: indent_size, tab_str, apply_function_style, variable_style *)
(***************************************************************************)
Min(a, b) == IF a < b THEN a ELSE b
Max(a, b) == IF a > b THEN a ELSE b

\* BashFormatter._indent_line
_indent_line(cfg, level, line) == Repeat(cfg.tab_str, cfg.indent_size * level) \o line

\* BashFormatter._handle_multiline_string_content
_handle_multiline_string_content(record, stripped_record, state) ==
    LET q == state.multiline_string_quote_char
        closes == /\ q # NoQuote
                  /\ CountChar(stripped_record, q) > 0
                  /\ CountChar(stripped_record, q) % 2 = 1
    IN  [out |-> record,
         state |-> IF closes
                   THEN [state EXCEPT !.in_multiline_string = FALSE,
                                      !.multiline_string_quote_char = NoQuote]
                   ELSE state]

\* BashFormatter._check_multiline_string_start: the state after the call
\* (in_multiline_string tells the result)
_check_multiline_string_start(test_record, state) ==
    LET u == detect_unclosed_quote(test_record)
    IN  IF u.double \/ u.single
        THEN [state EXCEPT !.in_multiline_string = TRUE,
                           !.multiline_string_quote_char =
                               IF u.double THEN DQ ELSE SQ]
        ELSE state

\* BashFormatter._update_continuation_state
_update_continuation_state(stripped_record, state) ==
    [state EXCEPT !.prev_line_had_continue = state.continue_line,
                  !.continue_line = is_line_continuation(stripped_record)]

\* BashFormatter._handle_line_continuation
_handle_line_continuation(stripped_record, test_record, state) ==
    [state EXCEPT !.started_multiline_quoted_string =
        IF state.continue_line
        THEN (IF state.prev_line_had_continue THEN FALSE
              ELSE MULTILINE_STRING_START(test_record))
        ELSE FALSE]

\* _format_line, once the indenting and outdenting keywords, the function
\* style and the case choice of the line are known
FormatIndented(cfg, state, inc1, outc, level2, choice, else_elif, styled) ==
    LET inc == IF choice THEN inc1 + 1 ELSE inc1
        choice_case == IF choice THEN -1 ELSE 0
        else_case == IF else_elif THEN -1 ELSE 0
        net == inc - outc
        tab1 == state.tab + Min(net, 0)
        extab0 == tab1 + else_case + choice_case
        continued == /\ state.prev_line_had_continue
                     /\ state.open_brackets = 0
                     /\ ~state.ended_multiline_quoted_string
        extab == Max(0, IF continued THEN extab0 + 1 ELSE extab0)
    IN  [out |-> _indent_line(cfg, extab, styled),
         state |-> [state EXCEPT !.case_level = level2,
                                 !.tab = tab1 + Max(net, 0)]]

\* _format_line, once the keywords and brackets of the line are counted
FormatCounted(cfg, stripped_record, test_record, state, inc0, outc0, esac, case) ==
    LET level1 == IF esac THEN state.case_level - 1 ELSE state.case_level
        level2 == IF case THEN level1 + 1 ELSE level1
    IN  FormatIndented(cfg, state,
                       IF case THEN inc0 + 1 ELSE inc0,
                       IF esac THEN outc0 + 1 ELSE outc0,
                       level2,
                       level2 # 0 /\ CASE_CHOICE_PATTERN(test_record),
                       ELSE_ELIF_PATTERN(test_record),
                       change_function_style(stripped_record,
                                             detect_function_style(test_record),
                                             cfg.apply_function_style))

\* BashFormatter._format_line
_format_line(cfg, stripped_record, test_record, state) ==
    FormatCounted(cfg, stripped_record, test_record, state,
                  INDENT_INCREASE_KEYWORDS(test_record) + OPENING_BRACKETS(test_record),
                  INDENT_DECREASE_KEYWORDS(test_record) + CLOSING_BRACKETS(test_record),
                  ESAC_KEYWORD_PATTERN(test_record) /\ state.case_level # 0,
                  CASE_KEYWORD_PATTERN(test_record))

\* _process_line, the count of the square brackets after _format_line
CountSquareBrackets(test_record, fl) ==
    [out |-> fl.out,
     state |-> [fl.state EXCEPT !.open_brackets =
                   fl.state.open_brackets
                   + SQUARE_BRACKET_OPEN(test_record)
                   - SQUARE_BRACKET_CLOSE(test_record)]]

\* _process_line, from the directives on
ProcessDirectives(cfg, record, stripped_record, test_record, state) ==
    IF ~state.formatter_enabled
    THEN [out |-> record,
          state |-> IF FORMATTER_ON_DIRECTIVE(stripped_record)
                    THEN [state EXCEPT !.formatter_enabled = TRUE] ELSE state]
    ELSE IF FORMATTER_OFF_DIRECTIVE(stripped_record)
         THEN [out |-> record, state |-> [state EXCEPT !.formatter_enabled = FALSE]]
    ELSE IF state.open_brackets # 0
         THEN [out |-> record, state |-> state]
    ELSE CountSquareBrackets(test_record,
                             _format_line(cfg, stripped_record, test_record, state))

\* _process_line: the state once detect_heredoc has answered hd
StartHereDoc(state, hd) ==
    IF hd.is_heredoc
    THEN [state EXCEPT !.in_here_doc = TRUE, !.here_string = hd.here_string]
    ELSE state

\* _process_line, from the pass-through of here-docs and multiline strings on
ProcessPassThrough(cfg, record, stripped_record, test_record, inside_multiline_quoted, state) ==
    IF \/ state.in_here_doc
       \/ inside_multiline_quoted
       \/ state.ended_multiline_quoted_string
    THEN [out |-> record,
          state |-> IF /\ Contains(test_record, state.here_string)
                       /\ ~Contains(test_record, LtLt)
                    THEN [state EXCEPT !.in_here_doc = FALSE] ELSE state]
    ELSE ProcessDirectives(cfg, record, stripped_record, test_record,
             StartHereDoc(_handle_line_continuation(stripped_record, test_record, state),
                          detect_heredoc(test_record, stripped_record)))

\* _process_line, after _update_continuation_state
ProcessContinuation(cfg, record, stripped_record, test_record, state) ==
    LET ending ==
            /\ ~state.continue_line
            /\ state.prev_line_had_continue
            /\ state.started_multiline_quoted_string
    IN  ProcessPassThrough(cfg, record, stripped_record,
            IF ending THEN MULTILINE_STRING_END(test_record) ELSE test_record,
            /\ state.prev_line_had_continue
            /\ state.continue_line
            /\ state.started_multiline_quoted_string,
            [state EXCEPT !.ended_multiline_quoted_string =
                ending /\ IndexFrom(test_record, 1, DQ) # 0])

\* _process_line, once _check_multiline_string_start has left the state started
ProcessStarted(cfg, record, stripped_record, test_record, state, started) ==
    IF started.in_multiline_string
    THEN [out |-> _indent_line(cfg, state.tab, stripped_record), state |-> started]
    ELSE ProcessContinuation(cfg, record, stripped_record, test_record,
                             _update_continuation_state(stripped_record, state))

\* _process_line, once the test record is known
ProcessTested(cfg, record, stripped_record, test_record, state) ==
    IF state.in_multiline_string
    THEN _handle_multiline_string_content(record, stripped_record, state)
    ELSE ProcessStarted(cfg, record, stripped_record, test_record, state,
                        _check_multiline_string_start(test_record, state))

\* _process_line, once the record is stripped
ProcessStripped(cfg, record, stripped_record, state) ==
    IF stripped_record = <<>> THEN [out |-> stripped_record, state |-> state]
    ELSE IF state.case_level # 0
         THEN ProcessTested(cfg, record,
                  ensure_space_before_double_semicolon(stripped_record, TRUE),
                  get_test_record(ensure_space_before_double_semicolon(stripped_record, TRUE)),
                  state)
    ELSE ProcessTested(cfg, record, stripped_record, get_test_record(stripped_record), state)

\* BashFormatter._process_line: the line returned and the state left
_process_line(cfg, record, state) ==
    ProcessStripped(cfg, rstrip(record), strip(record), state)

\* BashFormatter._check_final_state
_check_final_state(state) == state.tab # 0

\* DO_CASE_PATTERN = (\s|\A|;)(do|then)(\s+)(case\s), searched in a line
DO_CASE_PATTERN(s) ==
    \E p \in 1..(Len(s) + 1) :
        \E j \in 1..Len(KeywordStarts(s, p)) :
            \E kw \in {KwDo, KwThen} :
                LET k == KeywordStarts(s, p)[j]
                    c == SkipSpaces(s, k + Len(kw))
                IN  /\ StartsAt(s, k, kw)
                    /\ c > k + Len(kw)
                    /\ StartsAt(s, c, KwCase)
                    /\ IsSpace(At(s, c + 4))

\* CASE_SPLIT_PATTERN = (\s+)(case\s): start of group 2 in the leftmost
\* match at or after position k, or 0
RECURSIVE CASE_SPLIT_PATTERN(_, _)
CASE_SPLIT_PATTERN(s, k) ==
    IF k > Len(s) THEN 0
    ELSE IF IsSpace(At(s, k - 1)) /\ StartsAt(s, k, KwCase) /\ IsSpace(At(s, k + 4))
         THEN k
    ELSE CASE_SPLIT_PATTERN(s, k + 1)

\* the loop body of BashParser.normalize_do_case_lines: the lines that
\* replace one line
NormalizeLine(line) ==
    LET k == CASE_SPLIT_PATTERN(line, 1)
    IN  IF DO_CASE_PATTERN(get_test_record(line)) /\ k # 0
        THEN <<rstrip(SubSeq(line, 1, k - 1)), From(line, k)>>
        ELSE <<line>>

RECURSIVE NormalizeLines(_)
NormalizeLines(ls) ==
    IF ls = <<>> THEN <<>> ELSE NormalizeLine(Head(ls)) \o NormalizeLines(Tail(ls))

\* the split mutated away: the part of a line before `case` is dropped
normalize_do_case_lines_dropping(data) ==
    join([i \in 1..Len(split(data)) |->
              LET k == CASE_SPLIT_PATTERN(split(data)[i], 1)
              IN  IF DO_CASE_PATTERN(get_test_record(split(data)[i])) /\ k # 0
                  THEN From(split(data)[i], k) ELSE split(data)[i]])

\* BashParser.normalize_do_case_lines
normalize_do_case_lines(data) == join(NormalizeLines(split(data)))

\* beautify_string, lines 94-97: the variable style on the line returned
StyleRecord(cfg, r) ==
    [out |-> IF cfg.variable_style # NoVariableStyle
             THEN apply_variable_style(r.out, cfg.variable_style)
             ELSE r.out,
     state |-> r.state]

\* one iteration of the loop of BashFormatter.beautify_string: the line
\* written and the state after it
FormatRecord(cfg, record, state) == StyleRecord(cfg, _process_line(cfg, record, state))

\* output.write of the line of r
WriteRecord(written, r) == [lines |-> Append(written, r.out), state |-> r.state]

\* the loop of beautify_string from record k on, acc holding the lines
\* written and the state so far
RECURSIVE FormatRecords(_, _, _, _)
FormatRecords(cfg, records, k, acc) ==
    IF k > Len(records) THEN acc
    ELSE FormatRecords(cfg, records, k + 1,
             WriteRecord(acc.lines, FormatRecord(cfg, records[k], acc.state)))

\* beautify_string, lines 106-108
Result(r) == [formatted |-> join(r.lines), error |-> _check_final_state(r.state)]

\* BashFormatter.beautify_string: the pair (formatted, error)
beautify_string(cfg, data) ==
    Result(FormatRecords(cfg, split(normalize_do_case_lines(data)), 1,
                         [lines |-> <<>>, state |-> FormatterState]))

(***************************************************************************)
(* Inputs: scripts of at most MaxLines lines, the lines of one script      *)
(* taken from one of a few small vocabularies                              *)
(***************************************************************************)
MaxLines == 3

LineIfThen == <<"i","f"," ","x",";"," ","t","h","e","n">>
LineFi == <<"f","i">>
LineEcho == <<" ","e","c","h","o"," ","$","a">>
LineCaseIn == <<"c","a","s","e"," ","x"," ","i","n">>
LineEsac == <<"e","s","a","c">>
LineCatE == <<"c","a","t"," ","<","<","E">>
LineCatQuotedE == <<"c","a","t"," ","<","<",SQ,"E",SQ>>
LineE == <<"E">>
LineFormatterOff == <<"#"," ","@","f","o","r","m","a","t","t","e","r",":","o","f","f">>
LineFormatterOn == <<"#"," ","@","f","o","r","m","a","t","t","e","r",":","o","n">>

IfLines == {LineIfThen, LineEcho, LineFi, <<>>}

CaseLines ==
    {LineCaseIn,
     <<"a",")"," ","b",";",";",";">>,
     <<"a",")"," ","b",";",";">>,
     LineEsac}

HeredocLines ==
    {LineCatE,
     LineCatQuotedE,
     <<"$","a">>,
     <<" ","b"," ">>,
     LineE}

DirectiveLines ==
    {LineFormatterOff,
     LineFormatterOn,
     <<" ","$","a"," ">>,
     LineIfThen,
     LineFi}

Vocabularies == {IfLines, CaseLines, HeredocLines, DirectiveLines}

\* the sequences of at most n elements of S
SeqsUpTo(S, n) == UNION {[1..k -> S] : k \in 0..n}

\* the scripts, as lists of lines
ScriptLines == UNION {SeqsUpTo(V, MaxLines) : V \in Vocabularies}

\* the scripts, as the text handed to beautify_string
Scripts == {join(ls) : ls \in ScriptLines}

\* BashFormatter.__init__: the configurations the model runs
Configs ==
    {[indent_size |-> 4, tab_str |-> " ",
      apply_function_style |-> NoStyle, variable_style |-> v] :
         v \in {NoVariableStyle, VARIABLE_STYLE_BRACES}}

(***************************************************************************)
(* The state of one call of BashFormatter.beautify_string                  *)
(***************************************************************************)
VARIABLES
    cfg,        \* the formatter's configuration
    data,       \* the argument of beautify_string
    pc,         \* where the call is: "start", "loop", "done"
    records,    \* data.split("\n") after normalize_do_case_lines
    line_num,   \* the loop counter
    state,      \* the FormatterState
    output,     \* the lines written to the StringIO so far
    formatted,  \* the first component of the result
    error       \* the second component of the result

fmtVars == <<cfg, data, pc, records, line_num, state, output, formatted, error>>

FmtInit ==
    /\ cfg \in Configs
    /\ data \in Scripts
    /\ pc = "start"
    /\ records = <<>>
    /\ line_num = 1
    /\ state = FormatterState
    /\ output = <<>>
    /\ formatted = <<>>
    /\ error = FALSE

\* beautify_string, up to the loop
Normalize ==
    /\ pc = "start"
    /\ records' = split(normalize_do_case_lines(data))
    /\ pc' = "loop"
    /\ UNCHANGED <<cfg, data, line_num, state, output, formatted, error>>

\* one iteration of the loop of beautify_string
ProcessLine ==
    /\ pc = "loop"
    /\ line_num <= Len(records)
    /\ \E r \in {FormatRecord(cfg, records[line_num], state)} :
           /\ output' = Append(output, r.out)
           /\ state' = r.state
    /\ line_num' = line_num + 1
    /\ UNCHANGED <<cfg, data, pc, records, formatted, error>>

\* beautify_string, after the loop
Finish ==
    /\ pc = "loop"
    /\ line_num > Len(records)
    /\ error' = _check_final_state(state)
    /\ formatted' = join(output)
    /\ pc' = "done"
    /\ UNCHANGED <<cfg, data, records, line_num, state, output>>

(***************************************************************************)
(* cli.py: BeautyshCLI.beautify_file                                       *)
(***************************************************************************)
MaxFileLines == 2

FileScripts == {join(ls) : ls \in UNION {SeqsUpTo(V, MaxFileLines) : V \in Vocabularies}}

Absent == <<"absent">>

VARIABLES
    path,        \* the argument of beautify_file: "-" or a file name
    source,      \* what read_file(path), or stdin, delivers
    check_only,  \* self.check_only
    backup,      \* self.backup
    file,        \* the content of the file path on disk
    bak,         \* the content of path + ".bak", or Absent
    stdout,      \* what was written to sys.stdout
    diff_shown,  \* whether print_diff was called
    returned,    \* the value beautify_file returned
    fpc          \* "call" before beautify_file, "done" after it

fileVars == <<path, source, check_only, backup, file, bak, stdout, diff_shown,
              returned, fpc>>

FileInit ==
    /\ path \in {"-", "script.sh"}
    /\ source \in FileScripts
    /\ check_only \in BOOLEAN
    /\ backup \in BOOLEAN
    /\ file = source
    /\ bak = Absent
    /\ stdout = <<>>
    /\ diff_shown = FALSE
    /\ returned = FALSE
    /\ fpc = "call"

\* the variables of beautify_string while beautify_file is modelled as one step
FmtIdle ==
    /\ cfg \in Configs
    /\ data = <<>>
    /\ pc = "idle"
    /\ records = <<>>
    /\ line_num = 1
    /\ state = FormatterState
    /\ output = <<>>
    /\ formatted = <<>>
    /\ error = FALSE

\* the variables of beautify_file while only beautify_string runs
FileIdle ==
    /\ path = "-"
    /\ source = <<>>
    /\ check_only = FALSE
    /\ backup = FALSE
    /\ file = <<>>
    /\ bak = Absent
    /\ stdout = <<>>
    /\ diff_shown = FALSE
    /\ returned = FALSE
    /\ fpc = "idle"

\* BeautyshCLI.beautify_file(path), path == "-"
BeautifyStdin ==
    /\ fpc = "call"
    /\ path = "-"
    /\ \E r \in {beautify_string(cfg, source)} :
           /\ stdout' = r.formatted
           /\ returned' = r.error
    /\ fpc' = "done"
    /\ UNCHANGED <<path, source, check_only, backup, file, bak, diff_shown>>

\* BeautyshCLI.beautify_file(path), a named file
BeautifyNamedFile ==
    /\ fpc = "call"
    /\ path # "-"
    /\ \E r \in {beautify_string(cfg, file)} :
           LET changed == file # r.formatted
           IN  /\ returned' = IF changed /\ check_only /\ ~r.error THEN TRUE ELSE r.error
               /\ diff_shown' = (changed /\ check_only /\ ~r.error)
               /\ bak' = IF changed /\ ~check_only /\ backup THEN file ELSE bak
               /\ file' = IF changed /\ ~check_only THEN r.formatted ELSE file
    /\ fpc' = "done"
    /\ UNCHANGED <<path, source, check_only, backup, stdout>>

(***************************************************************************)
(* grammar/bash.py: _preprocess_heredocs                                   *)
(***************************************************************************)
\* first position at or after i that holds neither a space nor a tab: [ \t]*
RECURSIVE SkipBlanks(_, _)
SkipBlanks(s, i) ==
    IF i <= Len(s) /\ s[i] \in {" ", TAB} THEN SkipBlanks(s, i + 1) ELSE i

NoHeredoc == [found |-> FALSE, strip_tabs |-> FALSE, delimiter |-> <<>>]

\* the lookbehind mutated away: a marker may start anywhere
HeredocLookbehindAnywhere(line, p) == TRUE

\* (?:(?<=[ \t])|(?<=[0-9])|^) at position p
HeredocLookbehind(line, p) ==
    \/ At(line, p - 1) \in {" ", TAB}
    \/ At(line, p - 1) \in Digit
    \/ p = 1

\* heredoc_pattern matched at position p:
\*   (?:(?<=[ \t])|(?<=[0-9])|^)<<(-)?[ \t]*([\'"]?)([a-zA-Z_][a-zA-Z0-9_]*)\2
\* groups 1 and 3 of the match
HeredocPatternAt(line, p) ==
    LET dash == At(line, p + 2) = "-"
        q == SkipBlanks(line, IF dash THEN p + 3 ELSE p + 2)
        quoted == At(line, q) \in {SQ, DQ}
        n == IF quoted THEN q + 1 ELSE q
        e == SkipWord(line, n)
    IN  IF /\ HeredocLookbehind(line, p)
           /\ StartsAt(line, p, LtLt)
           /\ IsIdentStart(At(line, n))
           /\ quoted => At(line, e) = At(line, q)
        THEN [found |-> TRUE, strip_tabs |-> dash,
              delimiter |-> SubSeq(line, n, e - 1)]
        ELSE NoHeredoc

\* re.search(heredoc_pattern, line), from position p on
RECURSIVE heredoc_pattern(_, _)
heredoc_pattern(line, p) ==
    IF p > Len(line) THEN NoHeredoc
    ELSE IF HeredocPatternAt(line, p).found THEN HeredocPatternAt(line, p)
    ELSE heredoc_pattern(line, p + 1)

\* the first lines of the sources: a prefix, at most MaxTokens tokens, a suffix
MaxTokens == 4

LineTokens == {LtLt, <<"<">>, <<" ">>, <<"x">>}

LinePrefixes == {<<>>, <<"$","(","(","x">>, <<"$","(","(","2">>, <<"c","a","t"," ">>}

LineSuffixes == {<<>>, <<")",")">>}

\* the concatenation of a sequence of strings
RECURSIVE Concat(_)
Concat(ts) == IF ts = <<>> THEN <<>> ELSE Head(ts) \o Concat(Tail(ts))

FirstLines ==
    {pre \o Concat(ts) \o suf :
        pre \in LinePrefixes, ts \in SeqsUpTo(LineTokens, MaxTokens),
        suf \in LineSuffixes}

\* the lines that follow the first one
TailLines == {<<>>, <<<<"x">>>>, <<<<"e","c","h","o">>, <<" ","x"," ">>>>}

PreSources == {join(<<first>> \o tl) : first \in FirstLines, tl \in TailLines}

VARIABLES
    pre_source,       \* the argument of _preprocess_heredocs
    lines,            \* source.split('\n')
    pre_i,            \* the index i, counted from 1
    result_lines,     \* the lines kept for the grammar
    heredoc_content,  \* the dict from delimiter to content
    content_lines,    \* the body lines collected for the open heredoc
    delimiter,        \* the delimiter of the open heredoc
    strip_tabs,       \* whether the open heredoc was written <<-
    processed_source, \* '\n'.join(result_lines), once returned
    pre_pc            \* "scan": outer loop, "collect": inner loop, "done"

preVars == <<pre_source, lines, pre_i, result_lines, heredoc_content,
             content_lines, delimiter, strip_tabs, processed_source, pre_pc>>

PreInit ==
    /\ pre_source \in PreSources
    /\ lines = split(pre_source)
    /\ pre_i = 1
    /\ result_lines = <<>>
    /\ heredoc_content = <<>>
    /\ content_lines = <<>>
    /\ delimiter = <<>>
    /\ strip_tabs = FALSE
    /\ processed_source = <<>>
    /\ pre_pc = "scan"

\* the variables of _preprocess_heredocs while it is not running
PreIdle ==
    /\ pre_source = <<>>
    /\ lines = <<>>
    /\ pre_i = 1
    /\ result_lines = <<>>
    /\ heredoc_content = <<>>
    /\ content_lines = <<>>
    /\ delimiter = <<>>
    /\ strip_tabs = FALSE
    /\ processed_source = <<>>
    /\ pre_pc = "idle"

\* the assignment mutated into one that keeps the body stored first
StoreContentFirst(content, d, body) ==
    [k \in DOMAIN content \cup {d} |-> IF k \in DOMAIN content THEN content[k] ELSE join(body)]

\* heredoc_content[delimiter] = '\n'.join(content_lines)
StoreContent(content, d, body) ==
    [k \in DOMAIN content \cup {d} |-> IF k = d THEN join(body) ELSE content[k]]

\* one iteration of the outer loop: the line is kept, and opens a heredoc
\* when the pattern is found in it
ScanLine ==
    /\ pre_pc = "scan"
    /\ pre_i <= Len(lines)
    /\ LET match == heredoc_pattern(lines[pre_i], 1)
       IN  /\ result_lines' = Append(result_lines, lines[pre_i])
           /\ pre_i' = pre_i + 1
           /\ IF match.found
              THEN /\ strip_tabs' = match.strip_tabs
                   /\ delimiter' = match.delimiter
                   /\ content_lines' = <<>>
                   /\ pre_pc' = "collect"
              ELSE UNCHANGED <<strip_tabs, delimiter, content_lines, pre_pc>>
    /\ UNCHANGED <<pre_source, lines, heredoc_content, processed_source>>

\* one iteration of the inner loop: the line is the closing delimiter, or
\* one more line of the body
CollectLine ==
    /\ pre_pc = "collect"
    /\ pre_i <= Len(lines)
    /\ LET content_line == lines[pre_i]
           stripped == IF strip_tabs THEN lstripTabs(content_line) ELSE content_line
       IN  IF strip(stripped) = delimiter
           THEN /\ heredoc_content' = StoreContent(heredoc_content, delimiter, content_lines)
                /\ pre_pc' = "scan"
                /\ UNCHANGED content_lines
           ELSE /\ content_lines' = Append(content_lines, content_line)
                /\ UNCHANGED <<heredoc_content, pre_pc>>
    /\ pre_i' = pre_i + 1
    /\ UNCHANGED <<pre_source, lines, result_lines, delimiter, strip_tabs,
                   processed_source>>

\* the inner loop runs out of lines
CollectEnd ==
    /\ pre_pc = "collect"
    /\ pre_i > Len(lines)
    /\ heredoc_content' = StoreContent(heredoc_content, delimiter, content_lines)
    /\ pre_pc' = "scan"
    /\ UNCHANGED <<pre_source, lines, pre_i, result_lines, content_lines,
                   delimiter, strip_tabs, processed_source>>

\* the return of _preprocess_heredocs
PreReturn ==
    /\ pre_pc = "scan"
    /\ pre_i > Len(lines)
    /\ processed_source' = join(result_lines)
    /\ pre_pc' = "done"
    /\ UNCHANGED <<pre_source, lines, pre_i, result_lines, heredoc_content,
                   content_lines, delimiter, strip_tabs>>

(***************************************************************************)
(* grammar/bash.py, grammar/visitors.py, visitors/formatter.py: a word     *)
(* made of quoted strings, parameter expansions, backtick substitutions    *)
(* and bare characters, from its text to the text the FormatterVisitor     *)
(* emits.  The alternatives of the rule word that start with $", a         *)
(* backslash or "$(" are left out: the texts of the model hold none of     *)
(* these.                                                                  *)
(***************************************************************************)
\* Python's None where a string is expected
None == <<"None">>

\* Python's None where a Word node is expected
NoneWord == [type |-> "None", value |-> <<>>]

\* [^\s\n|&;()<>\\\"'$`{}#]
IsUnquotedChar(c) ==
    /\ c # ""
    /\ ~IsSpace(c)
    /\ c \notin {NL, "|", "&", ";", "(", ")", "<", ">", BSL, DQ, SQ, "$", BQ,
                 "{", "}", "#"}

\* [@*#?$!-]
SpecialParams == {"@", "*", "#", "?", "$", "!", "-"}

\* first position at or after i that holds no digit
RECURSIVE SkipDigits(_, _)
SkipDigits(s, i) ==
    IF i <= Len(s) /\ s[i] \in Digit THEN SkipDigits(s, i + 1) ELSE i

\* first position at or after i that holds no character of unquoted_word
RECURSIVE SkipUnquoted(_, _)
SkipUnquoted(s, i) ==
    IF i <= Len(s) /\ IsUnquotedChar(s[i]) THEN SkipUnquoted(s, i + 1) ELSE i

NoNode == [rule |-> "none", text |-> <<>>, end |-> 0]

\* param_braced = "${" param_content "}", param_content = ~r"[^}]+"
param_braced(s, p) ==
    LET e == IndexFrom(s, p + 2, "}")
    IN  IF StartsAt(s, p, <<"$", "{">>) /\ e > p + 2
        THEN [rule |-> "param_braced", text |-> SubSeq(s, p + 2, e - 1), end |-> e + 1]
        ELSE NoNode

\* simple_param = ~r"[a-zA-Z_][a-zA-Z0-9_]*" / ~r"[0-9]+" / ~r"[@*#?$!-]":
\* the position after the match at p, 0 when there is none
simple_param(s, p) ==
    IF IsIdentStart(At(s, p)) THEN SkipWord(s, p)
    ELSE IF At(s, p) \in Digit THEN SkipDigits(s, p)
    ELSE IF At(s, p) \in SpecialParams THEN p + 1
    ELSE 0

\* param_simple = "$" simple_param
param_simple(s, p) ==
    LET e == simple_param(s, p + 1)
    IN  IF At(s, p) = "$" /\ e # 0
        THEN [rule |-> "param_simple", text |-> SubSeq(s, p + 1, e - 1), end |-> e]
        ELSE NoNode

\* param_expansion = param_braced / param_simple
param_expansion(s, p) ==
    IF param_braced(s, p) # NoNode THEN param_braced(s, p) ELSE param_simple(s, p)

\* unquoted_word
unquoted_word(s, p) ==
    LET e == SkipUnquoted(s, p)
    IN  IF e > p
        THEN [rule |-> "unquoted_word", text |-> SubSeq(s, p, e - 1), end |-> e]
        ELSE NoNode

\* single_quoted = "'" single_content "'", single_content = ~r"[^']*"
single_quoted(s, p) ==
    LET e == IndexFrom(s, p + 1, SQ)
    IN  IF At(s, p) = SQ /\ e > p
        THEN [rule |-> "single_quoted", text |-> SubSeq(s, p + 1, e - 1), end |-> e + 1]
        ELSE NoNode

\* ~r"([^'\\]|\\.)*" from position i on: the position after the match
RECURSIVE dollar_single_content(_, _)
dollar_single_content(s, i) ==
    IF At(s, i) = BSL /\ At(s, i + 1) \notin {"", NL}
    THEN dollar_single_content(s, i + 2)
    ELSE IF At(s, i) \notin {"", SQ, BSL} THEN dollar_single_content(s, i + 1)
    ELSE i

\* dollar_single_quoted = "$'" dollar_single_content "'"
dollar_single_quoted(s, p) ==
    LET e == dollar_single_content(s, p + 2)
    IN  IF StartsAt(s, p, <<"$", SQ>>) /\ At(s, e) = SQ
        THEN [rule |-> "dollar_single_quoted", text |-> SubSeq(s, p + 2, e - 1),
              end |-> e + 1]
        ELSE NoNode

\* command_sub_backtick = "`" backtick_content "`", backtick_content = ~r"[^`]*"
command_sub_backtick(s, p) ==
    LET e == IndexFrom(s, p + 1, BQ)
    IN  IF At(s, p) = BQ /\ e > p
        THEN [rule |-> "command_sub_backtick", text |-> SubSeq(s, p + 1, e - 1),
              end |-> e + 1]
        ELSE NoNode

\* expansion = arith_expansion / command_sub / param_expansion
expansion(s, p) ==
    IF command_sub_backtick(s, p) # NoNode THEN command_sub_backtick(s, p)
    ELSE param_expansion(s, p)

\* first position at or after i that holds no character of [^$`"\\]
RECURSIVE SkipDquotedLiteral(_, _)
SkipDquotedLiteral(s, i) ==
    IF At(s, i) \notin {"", "$", BQ, DQ, BSL} THEN SkipDquotedLiteral(s, i + 1) ELSE i

\* double_part = expansion / escaped_dquote / literal_dollar / dquoted_literal
\*   escaped_dquote = "\\" ~r"[\s\S]"
\*   literal_dollar = "$" !~r"[a-zA-Z_0-9@*#?$!{(-]"
\*   dquoted_literal = ~r'[^$`"\\]+'
double_part(s, p) ==
    IF expansion(s, p) # NoNode THEN expansion(s, p)
    ELSE IF At(s, p) = BSL /\ At(s, p + 1) # ""
    THEN [rule |-> "escaped_dquote", text |-> SubSeq(s, p, p + 1), end |-> p + 2]
    ELSE IF /\ At(s, p) = "$"
            /\ ~IsWord(At(s, p + 1))
            /\ At(s, p + 1) \notin {"@", "*", "#", "?", "$", "!", "{", "(", "-"}
    THEN [rule |-> "literal_dollar", text |-> <<"$">>, end |-> p + 1]
    ELSE IF SkipDquotedLiteral(s, p) > p
    THEN [rule |-> "dquoted_literal", text |-> SubSeq(s, p, SkipDquotedLiteral(s, p) - 1),
          end |-> SkipDquotedLiteral(s, p)]
    ELSE NoNode

\* double_part* from position p on
RECURSIVE double_parts(_, _)
double_parts(s, p) ==
    IF double_part(s, p) = NoNode THEN <<>>
    ELSE <<double_part(s, p)>> \o double_parts(s, double_part(s, p).end)

\* the position after the last of the parts, p when there is none
PartsEnd(parts, p) == IF parts = <<>> THEN p ELSE parts[Len(parts)].end

\* double_quoted = dquote double_part* dquote; the node keeps the text
\* between the quotes
double_quoted(s, p) ==
    LET e == PartsEnd(double_parts(s, p + 1), p + 1)
    IN  IF At(s, p) = DQ /\ At(s, e) = DQ
        THEN [rule |-> "double_quoted", text |-> SubSeq(s, p + 1, e - 1), end |-> e + 1]
        ELSE NoNode

\* first position at or after i that holds a brace
RECURSIVE SkipNoBrace(_, _)
SkipNoBrace(s, i) ==
    IF i <= Len(s) /\ s[i] \notin {"{", "}"} THEN SkipNoBrace(s, i + 1) ELSE i

\* brace_expansion = ~r"\{[^{}]+\}"
brace_expansion(s, p) ==
    LET e == SkipNoBrace(s, p + 1)
    IN  IF At(s, p) = "{" /\ e > p + 1 /\ At(s, e) = "}"
        THEN [rule |-> "brace_expansion", text |-> SubSeq(s, p, e), end |-> e + 1]
        ELSE NoNode

\* an ordered choice: the first alternative that matched, if any
FirstMatch(nodes) ==
    IF \A k \in 1..Len(nodes) : nodes[k] = NoNode THEN NoNode
    ELSE nodes[CHOOSE k \in 1..Len(nodes) :
                   nodes[k] # NoNode /\ \A m \in 1..(k - 1) : nodes[m] = NoNode]

\* one part of word = (single_quoted / double_quoted / dollar_single_quoted
\*                     / ... / expansion / brace_expansion / ...
\*                     / unquoted_word)+
WordPart(s, p) ==
    FirstMatch(<<single_quoted(s, p), double_quoted(s, p), dollar_single_quoted(s, p),
                 expansion(s, p), brace_expansion(s, p), unquoted_word(s, p)>>)

\* the parts of the word that starts at p
RECURSIVE word(_, _)

\* the parts of a word whose first part matched as part
WordFrom(s, part) ==
    IF part = NoNode THEN <<>> ELSE <<part>> \o word(s, part.end)

word(s, p) == WordFrom(s, WordPart(s, p))

\* the operators visit_param_braced looks for, in its order
ExpansionOperators ==
    << <<":", "-">>, <<":", "=">>, <<":", "+">>, <<":", "?">>,
       <<"-">>, <<"=">>, <<"+">>, <<"?">>,
       <<"#">>, <<"#", "#">>, <<"%">>, <<"%", "%">> >>

\* content_str.index(op), counted from 1
RECURSIVE Index(_, _, _)
Index(s, lit, i) ==
    IF StartsAt(s, i, lit) THEN i ELSE Index(s, lit, i + 1)

LiteralWord(value) == [type |-> "LiteralWord", value |-> value]

ParameterExpansion(name, braced, operator, argument) ==
    [type |-> "ParameterExpansion", name |-> name, braced |-> braced,
     operator |-> operator, argument |-> argument]

\* ASTBuilder.visit_param_braced
visit_param_braced(content_str) ==
    LET found == {k \in 1..Len(ExpansionOperators) :
                      Contains(content_str, ExpansionOperators[k])}
    IN  IF found = {} THEN ParameterExpansion(content_str, TRUE, None, NoneWord)
        ELSE LET op == ExpansionOperators[CHOOSE k \in found : \A m \in found : k <= m]
                 idx == Index(content_str, op, 1)
                 arg_str == From(content_str, idx + Len(op))
             IN  ParameterExpansion(SubSeq(content_str, 1, idx - 1), TRUE, op,
                                    IF arg_str # <<>> THEN LiteralWord(arg_str) ELSE NoneWord)

\* ASTBuilder.visit_param_simple
visit_param_simple(name) == ParameterExpansion(name, FALSE, None, NoneWord)

\* ASTBuilder.visit_unquoted_word
visit_unquoted_word(text) == LiteralWord(text)

\* the ValueError of a visitor, which NodeVisitor.visit wraps in a
\* VisitationError and parse_bash turns into a BashParseError
VisitationError == [type |-> "VisitationError", value |-> <<>>]

\* ASTBuilder.visit_single_quoted
visit_single_quoted(content) == [type |-> "SingleQuotedWord", value |-> content]

\* ASTBuilder.visit_dollar_single_quoted: four values are unpacked from the
\* three children of the rule
visit_dollar_single_quoted(visited_children) ==
    IF Len(visited_children) # 4 THEN VisitationError
    ELSE [type |-> "SingleQuotedWord", value |-> visited_children[3]]

\* ASTBuilder.visit_command_sub_backtick: the content is not kept
visit_command_sub_backtick(content) ==
    [type |-> "CommandSubstitution", command |-> None, backtick_style |-> TRUE]

\* ASTBuilder: the value visited for a part that is no quoted string; the
\* parts of double quotes that are plain text are visited as strings
BuildInner(node) ==
    IF node.rule = "param_braced" THEN visit_param_braced(node.text)
    ELSE IF node.rule = "param_simple" THEN visit_param_simple(node.text)
    ELSE IF node.rule = "command_sub_backtick" THEN visit_command_sub_backtick(node.text)
    ELSE IF node.rule = "unquoted_word" THEN visit_unquoted_word(node.text)
    ELSE node.text

\* the loop of visit_double_quoted on one part: a string becomes a
\* LiteralWord
DoubleQuotedPart(node) ==
    IF node.rule \in {"escaped_dquote", "literal_dollar", "dquoted_literal"}
    THEN LiteralWord(BuildInner(node))
    ELSE BuildInner(node)

\* ASTBuilder.visit_double_quoted, from the text between the quotes
visit_double_quoted(text) ==
    [type |-> "DoubleQuotedWord",
     parts |-> [k \in 1..Len(double_parts(text, 1)) |->
                   DoubleQuotedPart(double_parts(text, 1)[k])]]

\* ASTBuilder.generic_visit of a leaf with text that is not blank: the text,
\* a Python str
generic_visit(text) == [type |-> "str", value |-> text]

\* ASTBuilder: the node built for one part
BuildPart(node) ==
    IF node.rule = "single_quoted" THEN visit_single_quoted(node.text)
    ELSE IF node.rule = "double_quoted" THEN visit_double_quoted(node.text)
    ELSE IF node.rule = "dollar_single_quoted"
    THEN visit_dollar_single_quoted(<<<<"$", SQ>>, node.text, <<SQ>>>>)
    ELSE IF node.rule = "brace_expansion" THEN generic_visit(node.text)
    ELSE BuildInner(node)

\* name.isdigit()
isdigit(name) == name # <<>> /\ \A k \in 1..Len(name) : name[k] \in Digit

\* the test on digits mutated away
_is_special_param_no_digits(name) == name \in {<<c>> : c \in SpecialParams}

\* FormatterVisitor._is_special_param
_is_special_param(name) ==
    \/ name \in {<<"?">>, <<"@">>, <<"*">>, <<"#">>, <<"$">>, <<"!">>, <<"-">>}
    \/ isdigit(name)

\* FormatterVisitor.visit_literal_word
visit_literal_word(node) == node.value

\* the argument mutated away from the braced form
visit_parameter_expansion_no_argument(variable_style, node) ==
    IF node.braced THEN <<"$", "{">> \o node.name \o <<"}">>
    ELSE <<"$">> \o node.name

\* FormatterVisitor.visit_parameter_expansion
visit_parameter_expansion(variable_style, node) ==
    LET force_braces ==
            /\ variable_style = VARIABLE_STYLE_BRACES
            /\ ~node.braced
            /\ ~_is_special_param(node.name)
    IN  IF node.braced \/ force_braces
        THEN IF node.operator # None /\ node.argument # NoneWord
             THEN <<"$", "{">> \o node.name \o node.operator
                      \o visit_literal_word(node.argument) \o <<"}">>
             ELSE IF node.operator # None
             THEN <<"$", "{">> \o node.name \o node.operator \o <<"}">>
             ELSE <<"$", "{">> \o node.name \o <<"}">>
        ELSE <<"$">> \o node.name

\* FormatterVisitor.visit_single_quoted_word
visit_single_quoted_word(node) == <<SQ>> \o node.value \o <<SQ>>

\* FormatterVisitor.visit_command_substitution of a node with no command
visit_command_substitution(node) ==
    IF node.backtick_style THEN <<BQ, BQ>> ELSE <<"$", "(", ")">>

RECURSIVE visit_concatenated_word(_, _)

\* FormatterVisitor.visit_double_quoted_word: the parts joined between
\* two double quotes
visit_double_quoted_word(variable_style, node) ==
    <<DQ>> \o visit_concatenated_word(variable_style, node.parts) \o <<DQ>>

\* FormatterVisitor.visit on a word part
VisitPart(variable_style, node) ==
    IF node.type = "ParameterExpansion"
    THEN visit_parameter_expansion(variable_style, node)
    ELSE IF node.type = "SingleQuotedWord" THEN visit_single_quoted_word(node)
    ELSE IF node.type = "DoubleQuotedWord"
    THEN visit_double_quoted_word(variable_style, node)
    ELSE IF node.type = "CommandSubstitution" THEN visit_command_substitution(node)
    ELSE visit_literal_word(node)

\* FormatterVisitor.visit_concatenated_word: ''.join of the parts
visit_concatenated_word(variable_style, parts) ==
    IF parts = <<>> THEN <<>>
    ELSE VisitPart(variable_style, Head(parts))
             \o visit_concatenated_word(variable_style, Tail(parts))

\* the texts: "$" and at most MaxNameLen characters, or a braced expansion
\* with at most MaxContentLen characters between the braces
MaxNameLen == 3

MaxContentLen == 4

SimpleAlphabet == {"a", "_", "1", "?", "@", "*", "#", "$", "!", "-"}

ContentAlphabet == {"a", "1", ":", "-", "#", "$"}

WordTexts ==
    {<<"$">> \o n : n \in SeqsUpTo(SimpleAlphabet, MaxNameLen)}
        \cup {<<"$", "{">> \o c \o <<"}">> : c \in SeqsUpTo(ContentAlphabet, MaxContentLen)}

\* the quoted texts: at most MaxQuotedLen characters between single quotes,
\* between double quotes, or between $' and '
MaxQuotedLen == 3

QuotedAlphabet == {"a", " ", "$", BQ, BSL}

QuotedTexts ==
    UNION {{<<SQ>> \o c \o <<SQ>>, <<DQ>> \o c \o <<DQ>>, <<"$", SQ>> \o c \o <<SQ>>} :
              c \in SeqsUpTo(QuotedAlphabet, MaxQuotedLen)}

VARIABLES
    word_text,       \* the text of the word
    variable_style,  \* FormatterVisitor.variable_style
    tree,            \* the parts the grammar matched
    ast,             \* the nodes the ASTBuilder built for them
    emitted,         \* the text the FormatterVisitor returns for the word
    styled,          \* StyleTransformer.apply_variable_style of the same text
    word_pc          \* "parse", "build", "format", "style", "done", "error"

wordVars == <<word_text, variable_style, tree, ast, emitted, styled, word_pc>>

WordInit ==
    /\ word_text \in WordTexts
    /\ variable_style \in {NoVariableStyle, VARIABLE_STYLE_BRACES}
    /\ tree = <<>>
    /\ ast = <<>>
    /\ emitted = <<>>
    /\ styled = <<>>
    /\ word_pc = "parse"

\* the variables of the word while no word is formatted
WordIdle ==
    /\ word_text = <<>>
    /\ variable_style = NoVariableStyle
    /\ tree = <<>>
    /\ ast = <<>>
    /\ emitted = <<>>
    /\ styled = <<>>
    /\ word_pc = "idle"

\* BASH_GRAMMAR: the rule word applied to the text; a text the parts do not
\* cover is a parse error
ParseWord ==
    /\ word_pc = "parse"
    /\ \E parts \in {word(word_text, 1)} :
           IF PartsEnd(parts, 1) = Len(word_text) + 1
           THEN tree' = parts /\ word_pc' = "build"
           ELSE tree' = <<>> /\ word_pc' = "error"
    /\ UNCHANGED <<word_text, variable_style, ast, emitted, styled>>

\* ASTBuilder.visit_word; the exception of a visitor ends the parse
BuildWord ==
    /\ word_pc = "build"
    /\ \E built \in {[k \in 1..Len(tree) |-> BuildPart(tree[k])]} :
           IF \E k \in 1..Len(built) : built[k] = VisitationError
           THEN ast' = <<>> /\ word_pc' = "error"
           ELSE ast' = built /\ word_pc' = "format"
    /\ UNCHANGED <<word_text, variable_style, tree, emitted, styled>>

\* FormatterVisitor.visit on the word
FormatWord ==
    /\ word_pc = "format"
    /\ emitted' = visit_concatenated_word(variable_style, ast)
    /\ word_pc' = "style"
    /\ UNCHANGED <<word_text, variable_style, tree, ast, styled>>

\* StyleTransformer.apply_variable_style on the text of the word
StyleWord ==
    /\ word_pc = "style"
    /\ styled' = apply_variable_style(word_text, variable_style)
    /\ word_pc' = "done"
    /\ UNCHANGED <<word_text, variable_style, tree, ast, emitted>>

(***************************************************************************)
(* transformers.py: a function header converted to a style and back        *)
(***************************************************************************)
MaxFunctionNameLen == 2

\* characters of [\w:@-]
FunctionNameAlphabet == {"a", "-", ":", "@"}

FunctionNames ==
    UNION {[1..k -> FunctionNameAlphabet] : k \in 1..MaxFunctionNameLen}

FunctionStyles == {0, 1, 2}

\* the header of a declaration of name written in a style:
\* "function name() {", "function name {" or "name() {"
FunctionHeader(style, name) == FUNCTION_STYLE_REPLACEMENTS(style, name) \o <<"{">>

VARIABLES
    header,     \* the stripped record given to change_function_style
    style_a,    \* the style the header is written in
    style_b,    \* the style it is converted to
    converted,  \* change_function_style(header, style_a, style_b)
    restored,   \* change_function_style(converted, style_b, style_a)
    conv_pc     \* "start", "converted", "restored"

convVars == <<header, style_a, style_b, converted, restored, conv_pc>>

ConvInit ==
    /\ style_a \in FunctionStyles
    /\ style_b \in FunctionStyles \ {style_a}
    /\ header \in {FunctionHeader(style_a, name) : name \in FunctionNames}
    /\ converted = <<>>
    /\ restored = <<>>
    /\ conv_pc = "start"

\* the variables of the conversion while it is not running
ConvIdle ==
    /\ header = <<>>
    /\ style_a = NoStyle
    /\ style_b = NoStyle
    /\ converted = <<>>
    /\ restored = <<>>
    /\ conv_pc = "idle"

\* StyleTransformer.change_function_style(header, style_a, style_b)
ConvertHeader ==
    /\ conv_pc = "start"
    /\ converted' = change_function_style(header, style_a, style_b)
    /\ conv_pc' = "converted"
    /\ UNCHANGED <<header, style_a, style_b, restored>>

\* StyleTransformer.change_function_style(converted, style_b, style_a)
RestoreHeader ==
    /\ conv_pc = "converted"
    /\ restored' = change_function_style(converted, style_b, style_a)
    /\ conv_pc' = "restored"
    /\ UNCHANGED <<header, style_a, style_b, converted>>

(***************************************************************************)
(* Inputs of beautify_string made of blocks: balanced if and case blocks,  *)
(* lines that normalize_do_case_lines splits, and conditions in square     *)
(* brackets that run over several lines                                    *)
(***************************************************************************)
MaxBlocks == 2

\* an if block and a case block around the lines of body (the blocks of
\* test_balanced_if_fi and test_balanced_case_esac)
IfBlock(body) == <<LineIfThen>> \o body \o <<LineFi>>
CaseBlock(body) ==
    <<LineCaseIn, <<" ","a",")">>>> \o body \o <<<<";",";">>, LineEsac>>

BlocksAround(bodies) ==
    {IfBlock(body) : body \in bodies} \cup {CaseBlock(body) : body \in bodies}

\* the blocks: empty, around a command, around one block
PlainBodies == {<<>>, <<LineEcho>>}
BalancedBlocks == BlocksAround(PlainBodies \cup BlocksAround(PlainBodies))

\* the scripts of at most MaxBlocks balanced blocks, as lists of lines
BalancedLines == {Concat(bs) : bs \in SeqsUpTo(BalancedBlocks, MaxBlocks)}

LineWhileDoCase == <<"w","h","i","l","e"," ","x",";"," ","d","o"," ","c","a","s","e"," ","y"," ","i","n">>
LineThenCase == <<"i","f"," ","x",";"," ","t","h","e","n"," "," ","c","a","s","e"," ","y"," ","i","n">>
LineEchoDoCase == <<"e","c","h","o"," ",SQ,"d","o"," ","c","a","s","e"," ","x",SQ>>
LineDone == <<" ","d","o","n","e">>

\* lines with `do case` and `then case`, one of them inside quotes
DoCaseLines == {LineWhileDoCase, LineThenCase, LineEchoDoCase, LineEsac, LineDone}

LineIfBracket == <<"i","f"," ","["," ","$","a"," ","&","&">>
LineBracketThen == <<" "," ","$","b"," ","]",";"," ","t","h","e","n">>
LineIndentedX == <<" ","x">>

\* a condition in square brackets that is closed on the next line
BracketLines == {LineIfBracket, LineBracketThen, LineIndentedX, LineFi}

BlockScripts ==
    {join(ls) : ls \in BalancedLines
                       \cup SeqsUpTo(DoCaseLines, MaxLines)
                       \cup SeqsUpTo(BracketLines, MaxLines)}

(***************************************************************************)
(* Inputs of beautify_string with a forced function style and an indent    *)
(* size of 2                                                               *)
(***************************************************************************)
LineFunctionF == <<"f","u","n","c","t","i","o","n"," ","f"," ","{">>
LineFParens == <<"f","(",")"," ","{">>
LineEchoFunctionF == <<"e","c","h","o"," ","f","u","n","c","t","i","o","n"," ","f">>
LineIfTrueThen == <<"i","f"," ","t","r","u","e",";","t","h","e","n">>
LineEchoTest == <<"e","c","h","o"," ",DQ,"t","e","s","t",DQ>>

FunctionLines == {LineFunctionF, LineFParens, LineEchoFunctionF, <<"}">>}

\* the header of an if statement with each spacing around the semicolon
IfHeaders ==
    {LineIfTrueThen,
     <<"i","f"," ","t","r","u","e"," ",";","t","h","e","n">>,
     <<"i","f"," ","t","r","u","e",";"," ","t","h","e","n">>}

SpacingLines == IfHeaders \cup {LineEchoTest, LineFi}

\* lines that are empty or hold blanks only, and a command
BlankLines == {<<"e","c","h","o">>, <<" ">>, <<>>}

StyledVocabularies == {FunctionLines, SpacingLines, BlankLines}

StyledScripts == {join(ls) : ls \in UNION {SeqsUpTo(V, MaxLines) : V \in StyledVocabularies}}

\* BashFormatter.__init__ with indent_size 2 and each function style
StyledConfigs ==
    {[indent_size |-> 2, tab_str |-> " ",
      apply_function_style |-> f, variable_style |-> NoVariableStyle] :
         f \in {NoStyle} \cup FunctionStyles}

(***************************************************************************)
(* grammar/bash.py, grammar/visitors.py: the rules of statements, each     *)
(* with the value the ASTBuilder visits for it.  A result holds the        *)
(* position after the match (0 when the rule does not match) and the list  *)
(* of nodes visited, with the strings and empty lists that generic_visit   *)
(* and _flatten drop already dropped.  Left out, because the texts of the  *)
(* model hold none of them: "!", "&&", "||", assignments, redirects other  *)
(* than here-docs, the keywords if, for, until, case, select and function, *)
(* and a newline between the keyword while or a function header and what   *)
(* follows it.                                                             *)
(***************************************************************************)
Fail == [end |-> 0, v |-> <<>>]

\* e?: the position after e when it matched, p when it did not
Opt(e, p) == IF e = 0 THEN p ELSE e

\* the results of two expressions matched one after the other
Then(first, rest) == [end |-> rest.end, v |-> first.v \o rest.v]

\* ws? from position i on, ws = ~r"([ \t]|\\\n)+"
RECURSIVE SkipWs(_, _)
SkipWs(s, i) ==
    IF At(s, i) \in {" ", TAB} THEN SkipWs(s, i + 1)
    ELSE IF At(s, i) = BSL /\ At(s, i + 1) = NL THEN SkipWs(s, i + 2)
    ELSE i

\* ws
ws(s, p) == IF SkipWs(s, p) > p THEN SkipWs(s, p) ELSE 0

\* comment = ~r"#[^\n]*"
comment(s, p) ==
    IF At(s, p) # "#" THEN 0
    ELSE IF IndexFrom(s, p, NL) = 0 THEN Len(s) + 1
    ELSE IndexFrom(s, p, NL)

\* ASTBuilder.visit_comment, from the text of the comment
visit_comment(text) == [type |-> "Comment", text |-> Tail(text)]

\* blank_newlines = (ws? newline ws?)+
RECURSIVE blank_newlines(_, _)
blank_newlines(s, p) ==
    IF At(s, SkipWs(s, p)) # NL THEN 0
    ELSE Opt(blank_newlines(s, SkipWs(s, SkipWs(s, p) + 1)),
             SkipWs(s, SkipWs(s, p) + 1))

\* the words of the rule reserved_word, in its order
ReservedWords ==
    << <<"t","h","e","n">>, <<"e","l","s","e">>, <<"e","l","i","f">>, <<"f","i">>,
       <<"d","o","n","e">>, <<"d","o">>, <<"e","s","a","c">>, <<"i","n">>, <<"}">> >>

\* reserved_word = ("then" / ... / "}") !~r"[a-zA-Z0-9_]"
reserved_word(s, p) ==
    LET found == {k \in 1..Len(ReservedWords) : StartsAt(s, p, ReservedWords[k])}
    IN  /\ found # {}
        /\ ~IsWord(At(s, p + Len(ReservedWords[CHOOSE k \in found :
                                                   \A m \in found : k <= m])))

\* separator_op = (";" / "&") !(";" / "&")
separator_op(s, p) ==
    IF At(s, p) \in {";", "&"} /\ At(s, p + 1) \notin {";", "&"} THEN p + 1 ELSE 0

\* the last element of separator, after the comment:
\* (separator_op ws? blank_newlines? / blank_newlines)
SeparatorEnd(s, c) ==
    IF separator_op(s, c) # 0
    THEN Opt(blank_newlines(s, SkipWs(s, separator_op(s, c))),
             SkipWs(s, separator_op(s, c)))
    ELSE blank_newlines(s, c)

\* the value of ws? comment matched from p to c: the Comment, if any
CommentFrom(s, p, c) ==
    IF c > SkipWs(s, p) THEN <<visit_comment(SubSeq(s, SkipWs(s, p), c - 1))>> ELSE <<>>

\* separator = ws? inline_comment? (separator_op ws? blank_newlines? / blank_newlines)
separator(s, p) ==
    \* c: the position after ws? inline_comment?
    LET c == Opt(comment(s, SkipWs(s, p)), SkipWs(s, p))
    IN  IF SeparatorEnd(s, c) = 0 THEN Fail
        ELSE [end |-> SeparatorEnd(s, c), v |-> CommentFrom(s, p, c)]

\* standalone_comment = ws? comment !~r"[^\n]" and visit_standalone_comment
standalone_comment(s, p) ==
    IF comment(s, SkipWs(s, p)) = 0 THEN Fail
    ELSE [end |-> comment(s, SkipWs(s, p)),
          v |-> CommentFrom(s, p, comment(s, SkipWs(s, p)))]

\* ASTBuilder.visit_heredoc_redirect and visit_io_redirect: the Redirect of
\* a here-doc whose delimiter stands from d to e - 1
HereDocRedirect(s, dash, d, e) ==
    [type |-> "Redirect",
     operator |-> IF dash THEN <<"<", "<", "-">> ELSE LtLt,
     heredoc |-> [type |-> "HereDoc",
                  delimiter |-> IF At(s, d) \in {SQ, DQ} THEN SubSeq(s, d + 1, e - 2)
                                ELSE SubSeq(s, d, e - 1),
                  content |-> <<>>,
                  strip_tabs |-> dash,
                  quoted |-> At(s, d) \in {SQ, DQ},
                  quote_char |-> IF At(s, d) \in {SQ, DQ} THEN At(s, d) ELSE ""]]

\* heredoc_delimiter = heredoc_quoted / heredoc_bare at d: the position
\* after it
\*   heredoc_quoted = "'" ~r"[^']+" "'" / '"' ~r'[^"]+' '"'
\*   heredoc_bare = ~r"[a-zA-Z_][a-zA-Z0-9_]*"
heredoc_delimiter(s, d) ==
    IF At(s, d) \in {SQ, DQ}
    THEN IF IndexFrom(s, d + 1, At(s, d)) > d + 1
         THEN IndexFrom(s, d + 1, At(s, d)) + 1 ELSE 0
    ELSE IF IsIdentStart(At(s, d)) THEN SkipWord(s, d)
    ELSE 0

\* ASTBuilder.visit_word, from the values visited for the parts
visit_word(parts) ==
    IF Len(parts) = 1 THEN parts[1]
    ELSE [type |-> "ConcatenatedWord", parts |-> parts]

\* the word whose parts the rule matched, as a result
WordOf(parts) ==
    IF parts = <<>> THEN Fail
    ELSE [end |-> parts[Len(parts)].end,
          v |-> <<visit_word([k \in 1..Len(parts) |-> BuildPart(parts[k])])>>]

\* word at p
WordAt(s, p) == WordOf(word(s, p))

\* isinstance(part, (LiteralWord, SingleQuotedWord, ...)): neither a
\* Redirect nor a str
IsWordNode(part) == part.type \notin {"Redirect", "str"}

\* redirect_op = ">>" / "<>" / "<&" / ">&" / ">|" / "<" / ">" at p: the
\* position after it
redirect_op(s, p) ==
    IF \E op \in {<<">", ">">>, <<"<", ">">>, <<"<", "&">>, <<">", "&">>, <<">", "|">>} :
           StartsAt(s, p, op)
    THEN p + 2
    ELSE IF At(s, p) \in {"<", ">"} THEN p + 1 ELSE 0

\* a Redirect has no here-doc
NoHereDoc == [type |-> "None"]

\* ASTBuilder.visit_io_redirect on redirect_op ws? redirect_target: the
\* target is kept when it is a word node
TargetRedirect(operator, target) ==
    [type |-> "Redirect",
     operator |-> operator,
     heredoc |-> NoHereDoc,
     target |-> IF IsWordNode(target) THEN target ELSE NoneWord]

\* io_redirect, its last alternative: io_number? heredoc_redirect with
\* heredoc_redirect = heredoc_op ws? heredoc_delimiter, heredoc_op = "<<-" / "<<"
heredoc_redirect(s, p) ==
    LET dash == StartsAt(s, p, <<"<", "<", "-">>)
        d == SkipWs(s, IF dash THEN p + 3 ELSE p + 2)
    IN  IF StartsAt(s, p, LtLt) /\ heredoc_delimiter(s, d) # 0
        THEN [end |-> heredoc_delimiter(s, d),
              v |-> <<HereDocRedirect(s, dash, d, heredoc_delimiter(s, d))>>]
        ELSE Fail

\* io_redirect, the redirect_target of its second alternative matched
IoRedirectWith(s, p, target) ==
    IF target.end # 0
    THEN [end |-> target.end,
          v |-> <<TargetRedirect(SubSeq(s, p, redirect_op(s, p) - 1), target.v[1])>>]
    ELSE heredoc_redirect(s, p)

\* io_redirect = io_number? herestring_redirect
\*             / io_number? redirect_op ws? redirect_target
\*             / io_number? heredoc_redirect
\* on texts with neither digits nor <<<, and redirect_target = word
io_redirect(s, p) ==
    IoRedirectWith(s, p, IF redirect_op(s, p) # 0
                         THEN WordAt(s, SkipWs(s, redirect_op(s, p))) ELSE Fail)

\* redirect_list? from p on, redirect_list = (ws? io_redirect)+, and
\* visit_redirect_list
RECURSIVE redirect_list(_, _)

\* one more (ws? io_redirect), matched as redirect
RedirectNext(s, p, redirect) ==
    IF redirect.end = 0 THEN [end |-> p, v |-> <<>>]
    ELSE Then(redirect, redirect_list(s, redirect.end))

redirect_list(s, p) == RedirectNext(s, p, io_redirect(s, SkipWs(s, p)))

\* cmd_suffix? from p on, cmd_suffix = (ws (io_redirect / word))+
RECURSIVE cmd_suffix(_, _)

\* one more (ws (io_redirect / word)), its alternatives matched
SuffixNext(s, p, redirect, next) ==
    IF redirect.end # 0 THEN Then(redirect, cmd_suffix(s, redirect.end))
    ELSE IF next.end # 0 THEN Then(next, cmd_suffix(s, next.end))
    ELSE [end |-> p, v |-> <<>>]

cmd_suffix(s, p) ==
    IF ws(s, p) = 0 THEN [end |-> p, v |-> <<>>]
    ELSE SuffixNext(s, p, io_redirect(s, ws(s, p)), WordAt(s, ws(s, p)))

IsRedirect(part) == part.type = "Redirect"

\* ASTBuilder.visit_simple_command, from the words and the redirects among
\* the flattened parts
visit_simple_command_parts(words, redirects) ==
    [type |-> "SimpleCommand",
     name |-> IF words = <<>> THEN NoneWord ELSE Head(words),
     arguments |-> IF words = <<>> THEN <<>> ELSE Tail(words),
     redirects |-> redirects]

\* simple_command, cmd_word and cmd_suffix? matched
SimpleWith(first, suffix) ==
    [end |-> suffix.end,
     v |-> <<visit_simple_command_parts(SelectSeq(first.v \o suffix.v, IsWordNode),
                                        SelectSeq(first.v \o suffix.v, IsRedirect))>>]

\* simple_command, cmd_word matched
SimpleFrom(s, first) ==
    IF first.end = 0 THEN Fail ELSE SimpleWith(first, cmd_suffix(s, first.end))

\* simple_command, its second alternative: cmd_word cmd_suffix?
simple_command(s, p) == SimpleFrom(s, WordAt(s, p))

RECURSIVE command(_, _)
RECURSIVE compound_list(_, _)
RECURSIVE compound_rest(_, _)
RECURSIVE pipe_rest(_, _)
RECURSIVE more_commands(_, _)
RECURSIVE script_items(_, _)

\* pipe = ws? "|" !"|" ws?
pipe(s, p) ==
    IF At(s, SkipWs(s, p)) = "|" /\ At(s, SkipWs(s, p) + 1) # "|"
    THEN SkipWs(s, SkipWs(s, p) + 1) ELSE 0

\* one more (pipe command), its command matched as next
PipeNext(s, p, next) ==
    IF next.end = 0 THEN [end |-> p, v |-> <<>>]
    ELSE Then(next, pipe_rest(s, next.end))

\* (pipe command)* from p on
pipe_rest(s, p) ==
    IF pipe(s, p) = 0 THEN [end |-> p, v |-> <<>>]
    ELSE PipeNext(s, p, command(s, pipe(s, p)))

\* ASTBuilder.visit_pipe_sequence and visit_pipeline
visit_pipeline_parts(first, rest) ==
    [end |-> rest.end,
     v |-> <<[type |-> "Pipeline", commands |-> first.v \o rest.v, negated |-> FALSE]>>]

\* pipe_sequence = command (pipe command)*, its first command matched
pipe_sequence(s, first) ==
    IF first.end = 0 THEN Fail
    ELSE visit_pipeline_parts(first, pipe_rest(s, first.end))

\* pipeline = bang? pipe_sequence
pipeline(s, p) == pipe_sequence(s, command(s, p))

\* and_or_list = pipeline (and_or_op pipeline)* and visit_and_or_list, which
\* returns the first pipeline when nothing follows it
and_or_list(s, p) == pipeline(s, p)

\* term = !reserved_word and_or_list
term(s, p) == IF reserved_word(s, p) THEN Fail ELSE and_or_list(s, p)

\* compound_item = standalone_comment / term
compound_item(s, p) ==
    IF standalone_comment(s, p).end # 0 THEN standalone_comment(s, p) ELSE term(s, p)

\* one more (separator !reserved_word compound_item), matched as sep, item
CompoundNext(s, p, sep, item) ==
    IF item.end = 0 THEN [end |-> p, v |-> <<>>]
    ELSE Then(Then(sep, item), compound_rest(s, item.end))

\* one more (separator !reserved_word compound_item), its separator matched
CompoundAfter(s, p, sep) ==
    IF sep.end = 0 \/ reserved_word(s, sep.end) THEN [end |-> p, v |-> <<>>]
    ELSE CompoundNext(s, p, sep, compound_item(s, sep.end))

\* (separator !reserved_word compound_item)* from p on
compound_rest(s, p) == CompoundAfter(s, p, separator(s, p))

\* ASTBuilder.visit_compound_list: _, first, rest, _ = visited_children
visit_compound_list_parts(s, first, rest) ==
    [end |-> Opt(separator(s, rest.end).end, rest.end),
     v |-> <<[type |-> "CompoundList", commands |-> first.v \o rest.v]>>]

\* compound_list, its first item matched
CompoundFrom(s, first) ==
    IF first.end = 0 THEN Fail
    ELSE visit_compound_list_parts(s, first, compound_rest(s, first.end))

\* compound_list = blank_newlines? compound_item
\*                 (separator !reserved_word compound_item)* separator?
compound_list(s, p) == CompoundFrom(s, compound_item(s, Opt(blank_newlines(s, p), p)))

\* the end of brace_group or subshell, its compound_list matched as body,
\* and visit_brace_group or visit_subshell
Group(s, type, close, body) ==
    IF body.end = 0 \/ At(s, SkipWs(s, body.end)) # close THEN Fail
    ELSE [end |-> SkipWs(s, body.end) + 1,
          v |-> <<[type |-> type, body |-> body.v[1]]>>]

\* brace_group = "{" ws? compound_list ws? "}"
brace_group(s, p) ==
    IF At(s, p) # "{" THEN Fail
    ELSE Group(s, "BraceGroup", "}", compound_list(s, SkipWs(s, p + 1)))

\* subshell = "(" ws? compound_list ws? ")"
subshell(s, p) ==
    IF At(s, p) # "(" THEN Fail
    ELSE Group(s, "Subshell", ")", compound_list(s, SkipWs(s, p + 1)))

\* sp_body = ws / blank_newlines
sp_body(s, p) == IF ws(s, p) # 0 THEN ws(s, p) ELSE blank_newlines(s, p)

\* the end of do_group, after separator? at e, and visit_do_group
DoEnd(s, body, e) ==
    IF StartsAt(s, e, KwDone) THEN [end |-> e + Len(KwDone), v |-> body.v] ELSE Fail

\* do_group, its compound_list matched as body
DoBody(s, body) ==
    IF body.end = 0 THEN Fail
    ELSE DoEnd(s, body, Opt(separator(s, body.end).end, body.end))

\* do_group = "do" sp_body compound_list separator? "done"
do_group(s, p) ==
    IF ~StartsAt(s, p, KwDo) \/ sp_body(s, p + Len(KwDo)) = 0 THEN Fail
    ELSE DoBody(s, compound_list(s, sp_body(s, p + Len(KwDo))))

KwWhile == <<"w","h","i","l","e">>

\* ASTBuilder.visit_while_clause
visit_while_clause(condition, body) ==
    IF body.end = 0 THEN Fail
    ELSE [end |-> body.end,
          v |-> <<[type |-> "WhileLoop", condition |-> condition.v[1],
                   body |-> body.v[1], redirects |-> <<>>]>>]

\* while_clause, its condition matched
WhileBody(s, condition) ==
    IF condition.end = 0 THEN Fail
    ELSE visit_while_clause(condition, do_group(s, condition.end))

\* while_clause = "while" sp compound_list do_group, sp matched as ws
while_clause(s, p) ==
    IF ~StartsAt(s, p, KwWhile) \/ ws(s, p + Len(KwWhile)) = 0 THEN Fail
    ELSE WhileBody(s, compound_list(s, ws(s, p + Len(KwWhile))))

\* compound_command = brace_group / subshell / ... / while_clause / ...
compound_command(s, p) ==
    IF At(s, p) = "{" THEN brace_group(s, p)
    ELSE IF At(s, p) = "(" THEN subshell(s, p)
    ELSE while_clause(s, p)

\* fname = ~r"[a-zA-Z_][a-zA-Z0-9_:@-]*"
fname(s, p) == IF IsIdentStart(At(s, p)) THEN SkipFunctionName(s, p) ELSE 0

\* ws? "(" ws? ")" ws? from e on: the position after it, or 0
ParenPair(s, e) ==
    IF At(s, SkipWs(s, e)) = "(" /\ At(s, SkipWs(s, SkipWs(s, e) + 1)) = ")"
    THEN SkipWs(s, SkipWs(s, SkipWs(s, e) + 1) + 1)
    ELSE 0

\* function_body = compound_command redirect_list? and visit_function_body,
\* which returns the body and leaves the redirects
function_body(s, body) ==
    IF body.end = 0 THEN Fail
    ELSE [end |-> redirect_list(s, body.end).end, v |-> body.v]

\* ASTBuilder.visit_function_def_paronly, the name standing from p to e - 1
visit_function_def_paronly(s, p, e, body) ==
    IF body.end = 0 THEN Fail
    ELSE [end |-> body.end,
          v |-> <<[type |-> "FunctionDef", name |-> SubSeq(s, p, e - 1),
                   body |-> body.v[1], style |-> 2]>>]

\* function_def_paronly = fname ws? "(" ws? ")" ws? linebreak? function_body
function_def_paronly(s, p) ==
    IF fname(s, p) = 0 \/ ParenPair(s, fname(s, p)) = 0 THEN Fail
    ELSE visit_function_def_paronly(s, p, fname(s, p),
             function_body(s, compound_command(s, ParenPair(s, fname(s, p)))))

\* ASTBuilder.visit_command on a compound command and its redirect_list?:
\* the redirects are attached to a node that has the attribute
visit_command(compound, redirects) ==
    [end |-> redirects.end,
     v |-> <<IF redirects.v # <<>> /\ "redirects" \in DOMAIN compound.v[1]
             THEN [compound.v[1] EXCEPT !.redirects = redirects.v]
             ELSE compound.v[1]>>]

\* command, after function_def was tried
CommandOr(s, p, function) ==
    IF function.end # 0 THEN function ELSE simple_command(s, p)

\* command, after compound_command was tried
CommandFrom(s, p, compound) ==
    IF compound.end # 0 THEN visit_command(compound, redirect_list(s, compound.end))
    ELSE CommandOr(s, p, function_def_paronly(s, p))

\* command = compound_command redirect_list? / function_def / simple_command
command(s, p) == CommandFrom(s, p, compound_command(s, p))

\* one more (separator_op and_or_list), its and_or_list matched as next
MoreNext(s, p, next) == IF next.end = 0 THEN p ELSE more_commands(s, next.end)

\* (separator_op and_or_list)* from p on: the position after it
more_commands(s, p) ==
    IF separator_op(s, p) = 0 THEN p
    ELSE MoreNext(s, p, and_or_list(s, separator_op(s, p)))

\* list_terminator = ws? (newline / ";") ws?
list_terminator(s, p) ==
    IF At(s, SkipWs(s, p)) \in {NL, ";"} THEN SkipWs(s, SkipWs(s, p) + 1) ELSE 0

\* ASTBuilder.visit_complete_command: the first and_or_list is returned,
\* what follows a separator_op is not
visit_complete_command(s, first, e) ==
    [end |-> Opt(list_terminator(s, e), e), v |-> first.v]

\* complete_command, its first and_or_list matched
CompleteFrom(s, first) ==
    IF first.end = 0 THEN Fail
    ELSE visit_complete_command(s, first, more_commands(s, first.end))

\* complete_command = and_or_list (separator_op and_or_list)* list_terminator?
complete_command(s, p) == CompleteFrom(s, and_or_list(s, p))

\* blank_line = ws? newline and visit_blank_line
blank_line(s, p) ==
    IF At(s, SkipWs(s, p)) = NL
    THEN [end |-> SkipWs(s, p) + 1, v |-> <<[type |-> "BlankLine"]>>]
    ELSE Fail

\* comment_line = ws? comment newline and visit_comment_line
comment_line(s, p) ==
    IF comment(s, SkipWs(s, p)) # 0 /\ At(s, comment(s, SkipWs(s, p))) = NL
    THEN [end |-> comment(s, SkipWs(s, p)) + 1,
          v |-> CommentFrom(s, p, comment(s, SkipWs(s, p)))]
    ELSE Fail

\* (complete_command / blank_line / comment_line), complete_command tried
ScriptItem(s, p, complete) ==
    IF complete.end # 0 THEN complete
    ELSE IF blank_line(s, p).end # 0 THEN blank_line(s, p)
    ELSE comment_line(s, p)

\* one more item of the script, matched as item
ScriptNext(s, p, item) ==
    IF item.end = 0 THEN [end |-> p, v |-> <<>>]
    ELSE Then(item, script_items(s, item.end))

\* (ws? (complete_command / blank_line / comment_line))* from p on
script_items(s, p) ==
    ScriptNext(s, p, ScriptItem(s, SkipWs(s, p), complete_command(s, SkipWs(s, p))))

\* the error of parse_bash
BashParseError == [type |-> "BashParseError"]

\* ASTBuilder.visit_script, or the error when the rule does not match the
\* whole text
visit_script_items(s, items) ==
    IF SkipWs(s, items.end) = Len(s) + 1
    THEN [type |-> "Script", commands |-> items.v]
    ELSE BashParseError

\* script = ws? (ws? (complete_command / blank_line / comment_line))* ws?
script(s) == visit_script_items(s, script_items(s, SkipWs(s, 1)))

(***************************************************************************)
(* grammar/bash.py: _fill_heredoc_content, which puts the bodies that      *)
(* _preprocess_heredocs took out of the text back into the HereDoc nodes.  *)
(***************************************************************************)
\* fill_redirects
fill_redirects(redirects, content) ==
    [k \in 1..Len(redirects) |->
        IF /\ redirects[k].heredoc.type = "HereDoc"
           /\ redirects[k].heredoc.delimiter \in DOMAIN content
        THEN [redirects[k] EXCEPT
                  !.heredoc.content = content[redirects[k].heredoc.delimiter]]
        ELSE redirects[k]]

\* walk: a SimpleCommand is filled, the commands or the children of another
\* node are walked; the children of a WhileLoop are its condition, its body
\* and its redirects, and nothing is done on a Redirect
RECURSIVE walk(_, _)
walk(node, content) ==
    IF node.type = "SimpleCommand"
    THEN [node EXCEPT !.redirects = fill_redirects(node.redirects, content)]
    ELSE IF "commands" \in DOMAIN node
    THEN [node EXCEPT !.commands =
              [k \in 1..Len(node.commands) |-> walk(node.commands[k], content)]]
    ELSE IF node.type = "WhileLoop"
    THEN [node EXCEPT !.condition = walk(node.condition, content),
                      !.body = walk(node.body, content)]
    ELSE IF "body" \in DOMAIN node
    THEN [node EXCEPT !.body = walk(node.body, content)]
    ELSE node

\* if heredoc_content: _fill_heredoc_content(script, heredoc_content)
_fill_heredoc_content(node, content) ==
    IF DOMAIN content # {} THEN walk(node, content) ELSE node

(***************************************************************************)
(* visitors/formatter.py: the FormatterVisitor on statements, as           *)
(* format_bash builds it: four spaces for a level, function_style and      *)
(* variable_style None.  The level of indentation is the second argument   *)
(* of visit.                                                               *)
(***************************************************************************)
\* FormatterVisitor._indent
_indent(level) == Repeat(" ", 4 * level)

\* sep.join(parts)
RECURSIVE JoinWith(_, _)
JoinWith(parts, sep) ==
    IF parts = <<>> THEN <<>>
    ELSE IF Len(parts) = 1 THEN parts[1]
    ELSE parts[1] \o sep \o JoinWith(Tail(parts), sep)

RECURSIVE visit(_, _)

\* [self.visit(node) for node in nodes]
VisitAll(nodes, level) == [k \in 1..Len(nodes) |-> visit(nodes[k], level)]

\* FormatterVisitor.visit_script
visit_script(node) == join(VisitAll(node.commands, 0))

\* FormatterVisitor.visit_heredoc
visit_heredoc(node) ==
    IF node.quoted
    THEN <<IF node.quote_char # "" THEN node.quote_char ELSE SQ>> \o node.delimiter
             \o <<IF node.quote_char # "" THEN node.quote_char ELSE SQ>>
    ELSE node.delimiter

\* FormatterVisitor.visit_redirect
visit_redirect(node, level) ==
    node.operator
        \o (IF node.heredoc.type = "HereDoc" THEN visit_heredoc(node.heredoc)
            ELSE IF node.target.type # "None" THEN visit(node.target, level)
            ELSE <<>>)

\* FormatterVisitor._format_heredoc_content
_format_heredoc_content(heredoc) == join(<<heredoc.content, heredoc.delimiter>>)

\* the pending here-docs of a command, each added on a new line
RECURSIVE PendingHeredocs(_)
PendingHeredocs(redirects) ==
    IF redirects = <<>> THEN <<>>
    ELSE (IF Head(redirects).heredoc.type = "HereDoc"
          THEN <<NL>> \o _format_heredoc_content(Head(redirects).heredoc) ELSE <<>>)
             \o PendingHeredocs(Tail(redirects))

\* FormatterVisitor.visit_simple_command
visit_simple_command(node, level) ==
    JoinWith((IF node.name.type # "None" THEN <<visit(node.name, level)>> ELSE <<>>)
                 \o VisitAll(node.arguments, level)
                 \o VisitAll(node.redirects, level),
             <<" ">>)
        \o PendingHeredocs(node.redirects)

\* FormatterVisitor.visit_pipeline
visit_pipeline(node, level) == JoinWith(VisitAll(node.commands, level), <<" ", "|", " ">>)

NotEmpty(text) == text # <<>>

\* the lines of visit_compound_list: self._indent + formatted
IndentLines(texts, level) ==
    [k \in 1..Len(texts) |-> _indent(level) \o texts[k]]

\* FormatterVisitor.visit_compound_list
visit_compound_list(node, level) ==
    join(IndentLines(SelectSeq(VisitAll(node.commands, level), NotEmpty), level))

\* FormatterVisitor.visit_subshell
visit_subshell(node, level) ==
    <<"(", NL>> \o visit(node.body, level + 1) \o <<NL>> \o _indent(level) \o <<")">>

\* FormatterVisitor.visit_brace_group
visit_brace_group(node, level) ==
    <<"{", NL>> \o visit(node.body, level + 1) \o <<NL>> \o _indent(level) \o <<"}">>

\* FormatterVisitor.visit_while_loop
visit_while_loop(node, level) ==
    join(<<KwWhile \o <<" ">> \o strip(visit(node.condition, level + 1))
               \o <<";", " ">> \o KwDo,
           visit(node.body, level + 1),
           _indent(level) \o KwDone
               \o (IF node.redirects # <<>>
                   THEN <<" ">> \o JoinWith(VisitAll(node.redirects, level), <<" ">>)
                   ELSE <<>>)>>)

\* FormatterVisitor.visit_function_def of a definition written name()
visit_function_def(node, level) ==
    join(<<node.name \o <<"(", ")", " ", "{">>,
           IF node.body.type = "BraceGroup" THEN visit(node.body.body, level + 1)
           ELSE visit(node.body, level + 1),
           _indent(level) \o <<"}">>>>)

\* FormatterVisitor.visit_comment
visit_comment_node(node) == <<"#">> \o node.text

\* FormatterVisitor.visit_blank_line
visit_blank_line(node) == <<>>

\* ASTVisitor.visit: the method of the node's class
visit(node, level) ==
    IF node.type = "Script" THEN visit_script(node)
    ELSE IF node.type = "SimpleCommand" THEN visit_simple_command(node, level)
    ELSE IF node.type = "Pipeline" THEN visit_pipeline(node, level)
    ELSE IF node.type = "CompoundList" THEN visit_compound_list(node, level)
    ELSE IF node.type = "Subshell" THEN visit_subshell(node, level)
    ELSE IF node.type = "BraceGroup" THEN visit_brace_group(node, level)
    ELSE IF node.type = "WhileLoop" THEN visit_while_loop(node, level)
    ELSE IF node.type = "FunctionDef" THEN visit_function_def(node, level)
    ELSE IF node.type = "Redirect" THEN visit_redirect(node, level)
    ELSE IF node.type = "Comment" THEN visit_comment_node(node)
    ELSE IF node.type = "BlankLine" THEN visit_blank_line(node)
    ELSE IF node.type = "ConcatenatedWord"
    THEN visit_concatenated_word(NoVariableStyle, node.parts)
    ELSE VisitPart(NoVariableStyle, node)

(***************************************************************************)
(* visitors/formatter.py: format_bash on a script, from the text to the    *)
(* formatted text: _preprocess_heredocs runs first, with the actions       *)
(* above, then the grammar and the ASTBuilder, _fill_heredoc_content and   *)
(* the FormatterVisitor.                                                   *)
(***************************************************************************)
MaxScriptLines == 4

\* the lines of the scripts: groups, comments and blank lines
GroupLines == {<<"{">>, <<"}">>, <<"a">>, <<"#", " ", "c">>, <<>>}

\* here-docs on a command, in a pipeline and on a loop
HeredocScriptLines ==
    {<<"c", " ", "<", "<", "E", " ", "|", " ", "x">>, <<"c", " ", "<", "<", "E">>,
     <<"b">>, <<"E">>, KwWhile \o <<" ", "a", ";", " ">> \o KwDo,
     KwDone \o <<" ", "<", "<", "E">>}

\* functions with a body in braces or in parentheses
FunctionBodyLines ==
    {<<"f", "(", ")", " ", "{">>, <<"f", "(", ")", " ", "(">>, <<"a">>, <<"}">>, <<")">>,
     <<"{", " ", "a", ";", " ", "}">>}

\* several commands on a line, with and without a blank after the semicolon
SemicolonLines ==
    {<<"a", ";", "b">>, <<"a", ";", " ", "b">>, <<"{", " ", "a", ";", "b", ";", " ", "}">>,
     <<"a">>}

\* a redirection after a group, a subshell, a loop, a function body and a
\* simple command
RedirectLines ==
    {<<"{", " ", "a", ";", " ", "}", " ", ">", " ", "o">>,
     <<"(", " ", "a", " ", ")", " ", ">", " ", "o">>,
     KwWhile \o <<" ", "a", ";", " ">> \o KwDo \o <<" ", "b", ";", " ">> \o KwDone
         \o <<" ", ">", ">", " ", "o">>,
     <<"f", "(", ")", " ", "{", " ", "a", ";", " ", "}", " ", ">", " ", "o">>,
     <<"a", " ", ">", " ", "o">>}

\* simple commands with a backtick substitution or a brace expansion as
\* an argument
WordLines ==
    {<<"a", " ", BQ, "b", BQ>>, <<"a", " ", "{", "b", ",", "c", "}">>, <<"a", " ", "b">>,
     <<BQ, "a", BQ>>}

ScriptVocabularies ==
    {GroupLines, HeredocScriptLines, FunctionBodyLines, SemicolonLines, RedirectLines,
     WordLines}

\* two complete here-docs in one script, with the same delimiter or not
TwoHeredocLines ==
    {<<<<"c", " ", "<", "<", "E">>, first, <<"E">>, marker, second, <<"E">>>> :
        first \in {<<"b">>, <<"d">>}, second \in {<<"b">>, <<"d">>},
        marker \in {<<"c", " ", "<", "<", "E">>, <<"c", " ", "<", "<", "-", "E">>,
                    <<"c", " ", "<", "<", "F">>}}

\* the texts: at most MaxScriptLines lines of one vocabulary, or the lines
\* of two here-docs, each line ended by a newline
ScriptTexts ==
    {join(ls) \o <<NL>> :
        ls \in UNION {SeqsUpTo(V, MaxScriptLines) \ {<<>>} : V \in ScriptVocabularies}
                    \cup TwoHeredocLines}

VARIABLES
    script_ast,  \* the Script that parse_bash builds, or its error
    script_out,  \* the text format_bash returns
    ast_pc       \* "parse", "fill", "format", "done" or "error"

astVars == <<script_ast, script_out, ast_pc>>

AstInit ==
    /\ script_ast = <<>>
    /\ script_out = <<>>
    /\ ast_pc = "parse"

\* the variables of format_bash while it is not running
AstIdle ==
    /\ script_ast = <<>>
    /\ script_out = <<>>
    /\ ast_pc = "idle"

\* BASH_GRAMMAR.parse(processed_source) and builder.visit(tree)
ParseScript ==
    /\ ast_pc = "parse"
    /\ pre_pc = "done"
    /\ \E built \in {script(processed_source)} :
          /\ script_ast' = built
          /\ ast_pc' = IF built = BashParseError THEN "error" ELSE "fill"
    /\ UNCHANGED script_out

\* the here-doc bodies filled in, and the return of parse_bash
FillHeredocs ==
    /\ ast_pc = "fill"
    /\ script_ast' = _fill_heredoc_content(script_ast, heredoc_content)
    /\ ast_pc' = "format"
    /\ UNCHANGED script_out

\* formatter.visit(ast)
FormatScript ==
    /\ ast_pc = "format"
    /\ script_out' = visit(script_ast, 0)
    /\ ast_pc' = "done"
    /\ UNCHANGED script_ast

(***************************************************************************)
(* Two calls of BashFormatter.beautify_string, their steps interleaved     *)
(***************************************************************************)
MaxCallLines == 2

CallLines == {LineIfThen, LineEcho, LineFi}

CallScripts == {join(ls) : ls \in SeqsUpTo(CallLines, MaxCallLines)}

Calls == {1, 2}

VARIABLES
    calls       \* for each call, its formatter object and its local variables

callVars == <<calls>>

\* beautify_string, lines 85-88: the local variables of a call that begins,
\* self being the formatter object, whose attributes only __init__ assigns
CallLocals(self, text) ==
    [self |-> self, data |-> text, pc |-> "start", records |-> <<>>,
     line_num |-> 1, state |-> FormatterState, output |-> <<>>,
     formatted |-> <<>>, error |-> FALSE]

\* a FormatterState that the formatter object keeps for all its calls
StoreStateShared(cs, k, new) == [j \in DOMAIN cs |-> [cs[j] EXCEPT !.state = new]]

\* _process_line updates the FormatterState of the call that passed it
StoreState(cs, k, new) == [cs EXCEPT ![k].state = new]

\* the two calls are made on one formatter object (equal configurations) or
\* on two
CallInit ==
    calls \in [Calls -> {CallLocals(c, d) : c \in Configs, d \in CallScripts}]

\* the variables of the two calls while a single call is modelled
CallIdle == calls = <<>>

\* beautify_string of one of the calls, up to the loop
CallNormalize ==
    \E k \in Calls :
        /\ calls[k].pc = "start"
        /\ calls' = [calls EXCEPT
               ![k].records = split(normalize_do_case_lines(calls[k].data)),
               ![k].pc = "loop"]

\* one iteration of the loop of one of the calls
CallProcessLine ==
    \E k \in Calls :
        /\ calls[k].pc = "loop"
        /\ calls[k].line_num <= Len(calls[k].records)
        /\ \E r \in {FormatRecord(calls[k].self, calls[k].records[calls[k].line_num],
                                  calls[k].state)} :
               calls' = StoreState([calls EXCEPT
                                       ![k].output = Append(calls[k].output, r.out),
                                       ![k].line_num = calls[k].line_num + 1],
                                   k, r.state)

\* beautify_string of one of the calls, after the loop
CallFinish ==
    \E k \in Calls :
        /\ calls[k].pc = "loop"
        /\ calls[k].line_num > Len(calls[k].records)
        /\ calls' = [calls EXCEPT
               ![k].error = _check_final_state(calls[k].state),
               ![k].formatted = join(calls[k].output),
               ![k].pc = "done"]

(***************************************************************************)
(* visitors/formatter.py: the indentation depth during a walk of           *)
(* FormatterVisitor over a tree of compound commands                       *)
(***************************************************************************)
MaxDepth == 2

\* ast/commands.py: the nodes, with their class and the fields the walk follows
PlainCommand == [type |-> "SimpleCommand"]

CompoundList(commands) == [type |-> "CompoundList", commands |-> commands]

NoBody == [type |-> "None"]

IfStatement(condition, then_body, elif_clauses, else_body) ==
    [type |-> "IfStatement", condition |-> condition, then_body |-> then_body,
     elif_clauses |-> elif_clauses, else_body |-> else_body]

ForLoop(body) == [type |-> "ForLoop", body |-> body]

WhileLoop(condition, body) == [type |-> "WhileLoop", condition |-> condition, body |-> body]

UntilLoop(condition, body) == [type |-> "UntilLoop", condition |-> condition, body |-> body]

CaseClause(body) == [type |-> "CaseClause", body |-> body]

CaseStatement(clauses) == [type |-> "CaseStatement", clauses |-> clauses]

Subshell(body) == [type |-> "Subshell", body |-> body]

BraceGroup(body) == [type |-> "BraceGroup", body |-> body]

FunctionDef(body) == [type |-> "FunctionDef", body |-> body]

Pipeline(commands) == [type |-> "Pipeline", commands |-> commands]

PlainList == CompoundList(<<PlainCommand>>)

\* the compound commands that hold the command c in one of their lists
Around(c) ==
    {IfStatement(CompoundList(<<c>>), PlainList, <<>>, NoBody),
     IfStatement(PlainList, CompoundList(<<c>>), <<>>, NoBody),
     IfStatement(PlainList, PlainList, << <<CompoundList(<<c>>), PlainList>> >>, NoBody),
     IfStatement(PlainList, PlainList, << <<PlainList, CompoundList(<<c>>)>> >>, PlainList),
     IfStatement(PlainList, PlainList, <<>>, CompoundList(<<c>>)),
     ForLoop(CompoundList(<<c>>)),
     WhileLoop(CompoundList(<<c>>), PlainList),
     WhileLoop(PlainList, CompoundList(<<c>>)),
     UntilLoop(CompoundList(<<c>>), PlainList),
     UntilLoop(PlainList, CompoundList(<<c>>)),
     CaseStatement(<<CaseClause(CompoundList(<<c>>)), CaseClause(NoBody)>>),
     Subshell(CompoundList(<<c>>)),
     BraceGroup(CompoundList(<<c, PlainCommand>>)),
     FunctionDef(BraceGroup(CompoundList(<<c>>))),
     FunctionDef(Subshell(CompoundList(<<c>>))),
     Pipeline(<<c, PlainCommand>>)}

\* the commands nested at most d deep
RECURSIVE CommandsUpTo(_)
CommandsUpTo(d) ==
    IF d = 0 THEN {PlainCommand}
    ELSE CommandsUpTo(d - 1) \cup UNION {Around(c) : c \in CommandsUpTo(d - 1)}

WalkScripts == {[type |-> "Script", commands |-> <<c>>] : c \in CommandsUpTo(MaxDepth)}

\* the steps of a walk: a visitor entered for a node that lies in `bodies`
\* lists of compound commands, self._indent read there, and the two
\* changes of the depth
Entered(bodies) == [op |-> "visit", bodies |-> bodies]

IndentRead(bodies) == [op |-> "indent", bodies |-> bodies]

Increase == [op |-> "increase", bodies |-> 0]

Decrease == [op |-> "decrease", bodies |-> 0]

\* FormatterVisitor._decrease_indent without its effect
_decrease_indent_skipped(level) == level

\* FormatterVisitor._increase_indent
_increase_indent(level) == level + 1

\* FormatterVisitor._decrease_indent
_decrease_indent(level) == IF level - 1 > 0 THEN level - 1 ELSE 0

RECURSIVE Walk(_, _)
\* self.visit of each node of a list in turn, the steps `after` following each
RECURSIVE WalkEach(_, _, _)
WalkEach(nodes, n, after) ==
    IF nodes = <<>> THEN <<>>
    ELSE Walk(Head(nodes), n) \o after \o WalkEach(Tail(nodes), n, after)

\* self._increase_indent(); self.visit(list); self._decrease_indent()
WalkBody(list, n) == <<Increase>> \o Walk(list, n + 1) \o <<Decrease>>

\* visit_script and visit_pipeline: the commands visited in turn
walk_commands(node, n) == WalkEach(node.commands, n, <<>>)

\* visit_compound_list: self._indent read after each command
walk_compound_list(node, n) == WalkEach(node.commands, n, <<IndentRead(n)>>)

\* visit_subshell and visit_brace_group
walk_group(node, n) == WalkBody(node.body, n) \o <<IndentRead(n)>>

\* visit_if_statement: the elif clauses from clause k on
RECURSIVE walk_elif_clauses(_, _, _)
walk_elif_clauses(clauses, k, n) ==
    IF k > Len(clauses) THEN <<>>
    ELSE WalkBody(clauses[k][1], n) \o <<IndentRead(n)>> \o WalkBody(clauses[k][2], n)
             \o walk_elif_clauses(clauses, k + 1, n)

\* visit_if_statement
walk_if_statement(node, n) ==
    WalkBody(node.condition, n) \o WalkBody(node.then_body, n)
        \o walk_elif_clauses(node.elif_clauses, 1, n)
        \o (IF node.else_body # NoBody
            THEN <<IndentRead(n)>> \o WalkBody(node.else_body, n) ELSE <<>>)
        \o <<IndentRead(n)>>

\* visit_for_loop
walk_for_loop(node, n) == WalkBody(node.body, n) \o <<IndentRead(n)>>

\* visit_while_loop and visit_until_loop
walk_loop(node, n) ==
    WalkBody(node.condition, n) \o WalkBody(node.body, n) \o <<IndentRead(n)>>

\* visit_case_clause
walk_case_clause(node, n) ==
    <<IndentRead(n)>>
        \o (IF node.body # NoBody THEN WalkBody(node.body, n) ELSE <<>>)
        \o <<IndentRead(n)>>

\* visit_case_statement
walk_case_statement(node, n) ==
    <<Increase>> \o WalkEach(node.clauses, n + 1, <<>>) \o <<Decrease, IndentRead(n)>>

\* visit_function_def
walk_function_def(node, n) ==
    (IF node.body.type = "BraceGroup" THEN WalkBody(node.body.body, n)
     ELSE WalkBody(node.body, n))
        \o <<IndentRead(n)>>

\* ASTVisitor.visit: the visitor of the node's class
Walk(node, n) ==
    <<Entered(n)>> \o
        (IF node.type \in {"Script", "Pipeline"} THEN walk_commands(node, n)
         ELSE IF node.type = "CompoundList" THEN walk_compound_list(node, n)
         ELSE IF node.type \in {"Subshell", "BraceGroup"} THEN walk_group(node, n)
         ELSE IF node.type = "IfStatement" THEN walk_if_statement(node, n)
         ELSE IF node.type = "ForLoop" THEN walk_for_loop(node, n)
         ELSE IF node.type \in {"WhileLoop", "UntilLoop"} THEN walk_loop(node, n)
         ELSE IF node.type = "CaseStatement" THEN walk_case_statement(node, n)
         ELSE IF node.type = "CaseClause" THEN walk_case_clause(node, n)
         ELSE IF node.type = "FunctionDef" THEN walk_function_def(node, n)
         ELSE <<>>)

VARIABLES
    walk_ast,       \* the Script the walk is made over
    walk_steps,     \* the steps of the walk still to come
    _indent_level,  \* FormatterVisitor._indent_level
    walk_at,        \* the step made last
    walk_pc         \* "start", "walk" or "done"

walkVars == <<walk_ast, walk_steps, _indent_level, walk_at, walk_pc>>

NoStep == [op |-> "none", bodies |-> 0]

\* FormatterVisitor.__init__, and the tree handed to visit
WalkInit ==
    /\ walk_ast \in WalkScripts
    /\ walk_steps = <<>>
    /\ _indent_level = 0
    /\ walk_at = NoStep
    /\ walk_pc = "start"

\* the variables of the walk while no walk is modelled
WalkIdle ==
    /\ walk_ast = <<>>
    /\ walk_steps = <<>>
    /\ _indent_level = 0
    /\ walk_at = NoStep
    /\ walk_pc = "idle"

\* formatter.visit(ast) is called
BeginWalk ==
    /\ walk_pc = "start"
    /\ walk_steps' = Walk(walk_ast, 0)
    /\ walk_pc' = "walk"
    /\ UNCHANGED <<walk_ast, _indent_level, walk_at>>

\* the step at the head of the remaining ones is made
StepTaken(op) ==
    /\ walk_pc = "walk"
    /\ walk_steps # <<>>
    /\ Head(walk_steps).op = op
    /\ walk_at' = Head(walk_steps)
    /\ walk_steps' = Tail(walk_steps)
    /\ UNCHANGED <<walk_ast, walk_pc>>

\* a visitor is entered
EnterVisitor == StepTaken("visit") /\ UNCHANGED _indent_level

\* self._indent is read
ReadIndent == StepTaken("indent") /\ UNCHANGED _indent_level

\* self._increase_indent()
IncreaseIndent == StepTaken("increase") /\ _indent_level' = _increase_indent(_indent_level)

\* self._decrease_indent()
DecreaseIndent == StepTaken("decrease") /\ _indent_level' = _decrease_indent(_indent_level)

\* visit returns to format_bash
EndWalk ==
    /\ walk_pc = "walk"
    /\ walk_steps = <<>>
    /\ walk_pc' = "done"
    /\ UNCHANGED <<walk_ast, walk_steps, _indent_level, walk_at>>

(***************************************************************************)
(* Specifications                                                          *)
(***************************************************************************)
vars == <<fmtVars, fileVars, preVars, wordVars, convVars, astVars, callVars, walkVars>>

Init == FmtInit /\ FileIdle /\ PreIdle /\ WordIdle /\ ConvIdle /\ AstIdle /\ CallIdle /\ WalkIdle

Next ==
    \/ Normalize /\ UNCHANGED <<fileVars, preVars, wordVars, convVars, astVars, callVars, walkVars>>
    \/ ProcessLine /\ UNCHANGED <<fileVars, preVars, wordVars, convVars, astVars, callVars, walkVars>>
    \/ Finish /\ UNCHANGED <<fileVars, preVars, wordVars, convVars, astVars, callVars, walkVars>>

\* one call of BashFormatter.beautify_string
Spec == Init /\ [][Next]_vars

InitFile == FileInit /\ FmtIdle /\ PreIdle /\ WordIdle /\ ConvIdle /\ AstIdle
    /\ CallIdle /\ WalkIdle

NextFile ==
    \/ BeautifyStdin /\ UNCHANGED <<fmtVars, preVars, wordVars, convVars, astVars, callVars, walkVars>>
    \/ BeautifyNamedFile /\ UNCHANGED <<fmtVars, preVars, wordVars, convVars, astVars, callVars, walkVars>>

\* one call of BeautyshCLI.beautify_file
SpecFile == InitFile /\ [][NextFile]_vars

\* the default configuration
DefaultConfigs == {c \in Configs : c.variable_style = NoVariableStyle}

\* _preprocess_heredocs and BashFormatter.beautify_string on the same source
InitPre ==
    /\ PreInit
    /\ cfg \in DefaultConfigs
    /\ data = pre_source
    /\ pc = "start"
    /\ records = <<>>
    /\ line_num = 1
    /\ state = FormatterState
    /\ output = <<>>
    /\ formatted = <<>>
    /\ error = FALSE
    /\ FileIdle
    /\ WordIdle
    /\ ConvIdle
    /\ AstIdle
    /\ CallIdle
    /\ WalkIdle

NextPre ==
    \/ ScanLine /\ UNCHANGED <<fmtVars, fileVars, wordVars, convVars, astVars, callVars, walkVars>>
    \/ CollectLine /\ UNCHANGED <<fmtVars, fileVars, wordVars, convVars, astVars, callVars, walkVars>>
    \/ CollectEnd /\ UNCHANGED <<fmtVars, fileVars, wordVars, convVars, astVars, callVars, walkVars>>
    \/ PreReturn /\ UNCHANGED <<fmtVars, fileVars, wordVars, convVars, astVars, callVars, walkVars>>
    \/ pre_pc = "done" /\ Normalize /\ UNCHANGED <<fileVars, preVars, wordVars, convVars, astVars, callVars, walkVars>>
    \/ pre_pc = "done" /\ ProcessLine /\ UNCHANGED <<fileVars, preVars, wordVars, convVars, astVars, callVars, walkVars>>
    \/ pre_pc = "done" /\ Finish /\ UNCHANGED <<fileVars, preVars, wordVars, convVars, astVars, callVars, walkVars>>

SpecPre == InitPre /\ [][NextPre]_vars

InitWord == WordInit /\ FmtIdle /\ FileIdle /\ PreIdle /\ ConvIdle /\ AstIdle
    /\ CallIdle /\ WalkIdle

NextWord ==
    \/ ParseWord /\ UNCHANGED <<fmtVars, fileVars, preVars, convVars, astVars, callVars, walkVars>>
    \/ BuildWord /\ UNCHANGED <<fmtVars, fileVars, preVars, convVars, astVars, callVars, walkVars>>
    \/ FormatWord /\ UNCHANGED <<fmtVars, fileVars, preVars, convVars, astVars, callVars, walkVars>>
    \/ StyleWord /\ UNCHANGED <<fmtVars, fileVars, preVars, convVars, astVars, callVars, walkVars>>

\* one word through the grammar, the ASTBuilder and the FormatterVisitor
SpecWord == InitWord /\ [][NextWord]_vars

InitConv == ConvInit /\ FmtIdle /\ FileIdle /\ PreIdle /\ WordIdle /\ AstIdle
    /\ CallIdle /\ WalkIdle

NextConv ==
    \/ ConvertHeader /\ UNCHANGED <<fmtVars, fileVars, preVars, wordVars, astVars, callVars, walkVars>>
    \/ RestoreHeader /\ UNCHANGED <<fmtVars, fileVars, preVars, wordVars, astVars, callVars, walkVars>>

InitQuoted ==
    /\ word_text \in QuotedTexts
    /\ variable_style = NoVariableStyle
    /\ tree = <<>>
    /\ ast = <<>>
    /\ emitted = <<>>
    /\ styled = <<>>
    /\ word_pc = "parse"
    /\ FmtIdle
    /\ FileIdle
    /\ PreIdle
    /\ ConvIdle
    /\ AstIdle
    /\ CallIdle
    /\ WalkIdle

\* one quoted word through the grammar, the ASTBuilder and the
\* FormatterVisitor
SpecQuoted == InitQuoted /\ [][NextWord]_vars

\* one header through change_function_style, there and back
SpecConv == InitConv /\ [][NextConv]_vars

InitStyled ==
    /\ cfg \in StyledConfigs
    /\ data \in StyledScripts
    /\ pc = "start"
    /\ records = <<>>
    /\ line_num = 1
    /\ state = FormatterState
    /\ output = <<>>
    /\ formatted = <<>>
    /\ error = FALSE
    /\ FileIdle
    /\ PreIdle
    /\ WordIdle
    /\ ConvIdle
    /\ AstIdle
    /\ CallIdle
    /\ WalkIdle

\* one call of BashFormatter.beautify_string with a function style forced
\* or not, and an indent size of 2
SpecStyled == InitStyled /\ [][Next]_vars

\* the text of format_bash, as _preprocess_heredocs receives it
InitScript ==
    /\ pre_source \in ScriptTexts
    /\ lines = split(pre_source)
    /\ pre_i = 1
    /\ result_lines = <<>>
    /\ heredoc_content = <<>>
    /\ content_lines = <<>>
    /\ delimiter = <<>>
    /\ strip_tabs = FALSE
    /\ processed_source = <<>>
    /\ pre_pc = "scan"
    /\ AstInit
    /\ FmtIdle
    /\ FileIdle
    /\ WordIdle
    /\ ConvIdle
    /\ CallIdle
    /\ WalkIdle

NextScript ==
    \/ ScanLine /\ UNCHANGED <<fmtVars, fileVars, wordVars, convVars, astVars, callVars, walkVars>>
    \/ CollectLine /\ UNCHANGED <<fmtVars, fileVars, wordVars, convVars, astVars, callVars, walkVars>>
    \/ CollectEnd /\ UNCHANGED <<fmtVars, fileVars, wordVars, convVars, astVars, callVars, walkVars>>
    \/ PreReturn /\ UNCHANGED <<fmtVars, fileVars, wordVars, convVars, astVars, callVars, walkVars>>
    \/ ParseScript /\ UNCHANGED <<fmtVars, fileVars, preVars, wordVars, convVars, callVars, walkVars>>
    \/ FillHeredocs /\ UNCHANGED <<fmtVars, fileVars, preVars, wordVars, convVars, callVars, walkVars>>
    \/ FormatScript /\ UNCHANGED <<fmtVars, fileVars, preVars, wordVars, convVars, callVars, walkVars>>

\* one call of format_bash
SpecScript == InitScript /\ [][NextScript]_vars

InitBlocks ==
    /\ cfg \in DefaultConfigs
    /\ data \in BlockScripts
    /\ pc = "start"
    /\ records = <<>>
    /\ line_num = 1
    /\ state = FormatterState
    /\ output = <<>>
    /\ formatted = <<>>
    /\ error = FALSE
    /\ FileIdle
    /\ PreIdle
    /\ WordIdle
    /\ ConvIdle
    /\ AstIdle
    /\ CallIdle
    /\ WalkIdle

\* one call of BashFormatter.beautify_string on a script of blocks
SpecBlocks == InitBlocks /\ [][Next]_vars

InitCalls ==
    /\ CallInit
    /\ FmtIdle
    /\ FileIdle
    /\ PreIdle
    /\ WordIdle
    /\ ConvIdle
    /\ AstIdle
    /\ WalkIdle

NextCalls ==
    \/ CallNormalize /\ UNCHANGED <<fmtVars, fileVars, preVars, wordVars, convVars, astVars, walkVars>>
    \/ CallProcessLine /\ UNCHANGED <<fmtVars, fileVars, preVars, wordVars, convVars, astVars, walkVars>>
    \/ CallFinish /\ UNCHANGED <<fmtVars, fileVars, preVars, wordVars, convVars, astVars, walkVars>>

\* two calls of BashFormatter.beautify_string, their steps in any order
SpecCalls == InitCalls /\ [][NextCalls]_vars

InitWalk ==
    /\ WalkInit
    /\ FmtIdle
    /\ FileIdle
    /\ PreIdle
    /\ WordIdle
    /\ ConvIdle
    /\ AstIdle
    /\ CallIdle

NextWalk ==
    \/ BeginWalk /\ UNCHANGED <<fmtVars, fileVars, preVars, wordVars, convVars, astVars, callVars>>
    \/ EnterVisitor /\ UNCHANGED <<fmtVars, fileVars, preVars, wordVars, convVars, astVars, callVars>>
    \/ ReadIndent /\ UNCHANGED <<fmtVars, fileVars, preVars, wordVars, convVars, astVars, callVars>>
    \/ IncreaseIndent /\ UNCHANGED <<fmtVars, fileVars, preVars, wordVars, convVars, astVars, callVars>>
    \/ DecreaseIndent /\ UNCHANGED <<fmtVars, fileVars, preVars, wordVars, convVars, astVars, callVars>>
    \/ EndWalk /\ UNCHANGED <<fmtVars, fileVars, preVars, wordVars, convVars, astVars, callVars>>

\* one walk of a FormatterVisitor over a script
SpecWalk == InitWalk /\ [][NextWalk]_vars

(***************************************************************************)
(* Claims about BashFormatter.beautify_string (Spec) and beautify_file     *)
(* (SpecFile)                                                              *)
(***************************************************************************)
\* the lines of the input and those of the result
InputLines == split(data)
OutputLines == split(formatted)

\* C1: when the call reports an error, the text it returns is the input
\* text, unchanged.
C1_ErrorReturnsSource ==
    (pc = "done" /\ error) => formatted = data

\* C2: when beautify_file has processed a named file outside check mode and
\* the formatter reported an error, the file on disk is what it was.
C2_ErrorLeavesFileUntouched ==
    (fpc = "done" /\ path # "-" /\ ~check_only /\ returned) => file = source

\* C3: when the call reports no error, formatting its result again reports
\* no error and returns the same text.
C3_Idempotent ==
    (pc = "done" /\ ~error) =>
        beautify_string(cfg, formatted) = [formatted |-> formatted, error |-> FALSE]

\* the script is the opener line, some lines none of which is the
\* delimiter E, and the delimiter line
IsHeredocScript(ls, opener) ==
    /\ Len(ls) >= 3
    /\ ls[1] = opener
    /\ ls[Len(ls)] = LineE
    /\ \A i \in 2..(Len(ls) - 1) : ls[i] # LineE

\* C4: with no variable style forced, the script cat <<E, b, E is returned
\* with every line of the body b unchanged and in order between the opener
\* and the delimiter line.
C4_HeredocBodyUnchanged ==
    (/\ pc = "done"
     /\ cfg.variable_style = NoVariableStyle
     /\ IsHeredocScript(InputLines, LineCatE)) => OutputLines = InputLines

\* lines i..j of ls are a formatter:off line, ..., the next formatter:on line
IsDirectiveRegion(ls, i, j) ==
    /\ i < j
    /\ ls[i] = LineFormatterOff
    /\ ls[j] = LineFormatterOn
    /\ \A k \in (i + 1)..(j - 1) : ls[k] # LineFormatterOn

\* C5: every line from a formatter:off line through the next formatter:on
\* line is returned exactly as it is in the input, whatever the options.
C5_DirectiveRegionVerbatim ==
    pc = "done" =>
        \A i, j \in 1..Len(InputLines) :
            IsDirectiveRegion(InputLines, i, j) =>
                /\ Len(OutputLines) = Len(InputLines)
                /\ \A k \in i..j : OutputLines[k] = InputLines[k]

\* C10: under forced brace style the body of a here-doc whose delimiter is
\* quoted is returned verbatim (and $NAME in the body of one whose
\* delimiter is not quoted is returned as ${NAME}).
C10_QuotedHeredocBodyVerbatim ==
    (/\ pc = "done"
     /\ cfg.variable_style = VARIABLE_STYLE_BRACES) =>
        /\ IsHeredocScript(InputLines, LineCatQuotedE) => OutputLines = InputLines
        /\ InputLines = <<LineCatE, <<"$", "a">>, LineE>> =>
               OutputLines = <<LineCatE, <<"$", "{", "a", "}">>, LineE>>

(***************************************************************************)
(* Claims about _preprocess_heredocs and BashFormatter.beautify_string on  *)
(* the same source (SpecPre)                                               *)
(***************************************************************************)
\* the line is one arithmetic expansion that holds a << operator
IsArithmeticShift(line) ==
    /\ StartsAt(line, 1, <<"$", "(", "(">>)
    /\ StartsAt(line, Len(line) - 1, <<")", ")">>)
    /\ Contains(line, LtLt)
    /\ ~Contains(line, LtLtLt)

\* every < of the line belongs to a run of exactly three, and there is one
IsHereStringLine(line) ==
    /\ Contains(line, LtLtLt)
    /\ \A p \in 1..Len(line) :
           (line[p] = "<" /\ At(line, p - 1) # "<") =>
               /\ At(line, p + 1) = "<"
               /\ At(line, p + 2) = "<"
               /\ At(line, p + 3) # "<"

\* neither implementation has started or recorded a here-doc, and the
\* preprocessor hands the whole source to the grammar
NoHeredocHandling ==
    /\ pre_pc # "collect"
    /\ DOMAIN heredoc_content = {}
    /\ ~state.in_here_doc
    /\ pre_pc = "done" => processed_source = pre_source

\* C6: a << inside an arithmetic expansion $(( ... )) never starts here-doc
\* handling, whatever its operands and the spaces around it: the lines that
\* follow are ordinary lines, not a here-doc body.
C6_ArithmeticShiftNoHeredoc ==
    (pre_pc # "idle" /\ IsArithmeticShift(lines[1])) => NoHeredocHandling

\* C7: a here-string redirection <<<word, with or without a space before
\* the word, never starts here-doc handling: no later line is taken as a
\* here-doc body because of it.
C7_HereStringNoHeredoc ==
    (pre_pc # "idle" /\ IsHereStringLine(lines[1])) => NoHeredocHandling

\* a here-string followed by a line equal to its word has gone through both
\* implementations
C7_Witness ==
    /\ pre_pc = "done"
    /\ pc = "done"
    /\ lines = << <<"c","a","t"," ","<","<","<"," ","x">>, <<"x">> >>
    /\ processed_source = pre_source

(***************************************************************************)
(* Claims about one word under the variable style (SpecWord)               *)
(***************************************************************************)
\* [a-zA-Z_][a-zA-Z0-9_]* as a whole
IsName(n) ==
    /\ n # <<>>
    /\ IsIdentStart(n[1])
    /\ \A k \in 1..Len(n) : IsWord(n[k])

\* [0-9]+ as a whole
IsNumber(n) == n # <<>> /\ \A k \in 1..Len(n) : n[k] \in Digit

Braced(n) == <<"$", "{">> \o n \o <<"}">>

C11_FunctionStyleRoundTrip == conv_pc = "restored" => restored = header

(***************************************************************************)
(* Claims about BashFormatter.beautify_string with a function style and    *)
(* an indent size of 2 (SpecStyled)                                        *)
(***************************************************************************)
\* a line that starts with a function declaration in one of the three styles
IsFunctionHeaderLine(line) ==
    \E style \in FunctionStyles : FunctionStyleMatchAt(lstrip(line), 1, style).end # 0

\* the lines beautify_string gives for the same input with no style forced
UnstyledLines ==
    split(beautify_string([cfg EXCEPT !.apply_function_style = NoStyle], data).formatted)

\* C12: with a function style forced, every output line that does not come
\* from a function declaration header is the line produced with no style
\* forced
C12_StyleChangesHeadersOnly ==
    pc = "done" =>
        \A i \in 1..Len(InputLines) :
            ~IsFunctionHeaderLine(InputLines[i]) => OutputLines[i] = UnstyledLines[i]

\* C14: the header of an if statement is emitted as "if <condition>; then"
\* whatever the spacing around the semicolon, with the body indented one
\* level and no error
C14_IfHeaderNormalised ==
    pc = "done" =>
        \A h \in IfHeaders :
            data = join(<<h, LineEchoTest, LineFi>>) =>
                /\ formatted = join(<<
                       <<"i","f"," ","t","r","u","e",";"," ","t","h","e","n">>,
                       <<" "," ">> \o LineEchoTest,
                       LineFi>>)
                /\ ~error

\* the text ends with a newline
EndsWithNewline(s) == Len(s) > 0 /\ s[Len(s)] = NL

\* C15: the output ends with a newline exactly when the input does
C15_TrailingNewlinePreserved ==
    pc = "done" => (EndsWithNewline(formatted) <=> EndsWithNewline(data))

(***************************************************************************)
(* Claims about _preprocess_heredocs (SpecPre), continued                  *)
(***************************************************************************)
\* C19: the inner loop of _preprocess_heredocs closes a here-doc only at a
\* line equal to the delimiter, leading tabs removed first under <<-
C19_HeredocEndsAtExactLine ==
    [][(pre_pc = "collect" /\ pre_pc' = "scan" /\ pre_i' = pre_i + 1) =>
          (IF strip_tabs THEN lstripTabs(lines[pre_i]) ELSE lines[pre_i]) = delimiter]_vars

(***************************************************************************)
(* Claims about quoted words (SpecQuoted)                                  *)
(***************************************************************************)
\* C17: a quoted word is emitted with the quote characters and the inner
\* text it had in the source, nothing added between the parts of a
\* double-quoted word, and a $'...' word is built and emitted like the
\* others
C17_QuotedWordPreserved ==
    /\ word_pc \in {"style", "done"} => emitted = word_text
    /\ (\E c \in SeqsUpTo({"a", " ", "$", BQ}, MaxQuotedLen) :
            word_text = <<"$", SQ>> \o c \o <<SQ>>) => word_pc # "error"

(***************************************************************************)
(* Claims about format_bash (SpecScript)                                   *)
(***************************************************************************)
\* the lines of the source, each ended by a newline, and those of the result
SourceLines == SubSeq(lines, 1, Len(lines) - 1)
FormattedLines == split(script_out)

\* the line, leading blanks removed, closes a construct
IsClosingLine(stripped) == stripped \in {<<"}">>, <<")">>, KwDone}

\* the line opens a construct: it ends with "{", "(" or "; do"
IsOpeningLine(stripped) ==
    /\ stripped # <<>>
    /\ \/ stripped[Len(stripped)] \in {"{", "("}
       \/ /\ Len(stripped) > 4
          /\ SubSeq(stripped, Len(stripped) - 3, Len(stripped)) = <<";", " ">> \o KwDo

\* depth of the line, from the depth before it
DepthAt(stripped, depth) == IF IsClosingLine(stripped) THEN depth - 1 ELSE depth

\* from line i on, every line that is not blank stands at four spaces for
\* each construct open around it, a closing line at the depth of its
\* opening line
RECURSIVE Indented(_, _, _)
Indented(ls, i, depth) ==
    IF i > Len(ls) THEN TRUE
    ELSE /\ DepthAt(lstrip(ls[i]), depth) >= 0
         /\ \/ lstrip(ls[i]) = <<>>
            \/ ls[i] = Repeat(" ", 4 * DepthAt(lstrip(ls[i]), depth)) \o lstrip(ls[i])
         /\ Indented(ls, i + 1,
                     IF IsOpeningLine(lstrip(ls[i]))
                     THEN DepthAt(lstrip(ls[i]), depth) + 1
                     ELSE DepthAt(lstrip(ls[i]), depth))

\* C13: in the output of a script with no here-doc, each statement of the
\* body of a construct stands one level deeper than the opening line of the
\* construct, and the closing bracket or keyword at the level of the
\* opening line, at every level of nesting
C13_BodyOneLevelDeeper ==
    (ast_pc = "done" /\ ~Contains(pre_source, LtLt)) => Indented(FormattedLines, 1, 0)

\* what a line is: blank, a comment with its text, or a command
LineKind(line) ==
    IF strip(line) = <<>> THEN <<"blank">>
    ELSE IF Head(strip(line)) = "#" THEN <<"comment", strip(line)>>
    ELSE <<"command">>

LineKinds(ls) == [k \in 1..Len(ls) |-> LineKind(ls[k])]

IsCommandKind(kind) == kind = <<"command">>

\* C16: when the output holds as many command lines as the input, the
\* comment lines and the blank lines of the input stand in the output, in
\* the same places between the command lines, at top level and in a group
C16_CommentsAndBlanksKept ==
    (/\ ast_pc = "done"
     /\ ~Contains(pre_source, LtLt)
     /\ Len(SelectSeq(LineKinds(SourceLines), IsCommandKind))
            = Len(SelectSeq(LineKinds(FormattedLines), IsCommandKind)))
        => LineKinds(FormattedLines) = LineKinds(SourceLines)

\* the delimiter of the here-docs of the scripts
DelimiterE == <<"E">>

\* C18: when the first line of the script opens a here-doc, the output
\* starts with that line whole, pipe stage included, then the body, then a
\* line that holds the delimiter alone
C18_HeredocBodyAfterMarkerLine ==
    (/\ ast_pc = "done"
     /\ Contains(lines[1], LtLt)
     /\ DelimiterE \in DOMAIN heredoc_content)
        => /\ Len(FormattedLines) >= Len(split(heredoc_content[DelimiterE])) + 2
           /\ SubSeq(FormattedLines, 1, Len(split(heredoc_content[DelimiterE])) + 2)
                  = <<lines[1]>> \o split(heredoc_content[DelimiterE]) \o <<DelimiterE>>

\* node.children(), for the nodes that can hold a redirect
ChildrenOf(node) ==
    (IF "commands" \in DOMAIN node THEN node.commands ELSE <<>>)
        \o (IF "redirects" \in DOMAIN node THEN node.redirects ELSE <<>>)
        \o (IF "condition" \in DOMAIN node THEN <<node.condition>> ELSE <<>>)
        \o (IF "body" \in DOMAIN node THEN <<node.body>> ELSE <<>>)

\* the HereDoc nodes of the tree under the node
RECURSIVE HereDocsOf(_)
HereDocsOf(node) ==
    IF node.type = "Redirect"
    THEN IF node.heredoc.type = "HereDoc" THEN {node.heredoc} ELSE {}
    ELSE UNION {HereDocsOf(ChildrenOf(node)[k]) : k \in 1..Len(ChildrenOf(node))}

\* C20: after parse_bash, every HereDoc node of the tree whose delimiter the
\* preprocessor recorded holds the recorded body, on a command, on a stage
\* of a pipeline, in a group or after the done of a loop
C20_EveryHeredocFilled ==
    ast_pc \in {"format", "done"} =>
        \A heredoc \in HereDocsOf(script_ast) :
            heredoc.delimiter \in DOMAIN heredoc_content
                => heredoc.content = heredoc_content[heredoc.delimiter]

(***************************************************************************)
(* Claims about BashFormatter.beautify_string on scripts of blocks         *)
(* (SpecBlocks)                                                            *)
(***************************************************************************)
BalancedScripts == {join(ls) : ls \in BalancedLines}

\* C25: on a script made only of balanced if and case blocks the call
\* finishes with indentation depth 0 and reports no error
C25_BalancedBlocksEndAtDepthZero ==
    (pc = "done" /\ data \in BalancedScripts) => (state.tab = 0 /\ ~error)

\* a case block around an if block, followed by an empty if block: the
\* depth rose to 3 and is back to 0
C25_Witness ==
    /\ pc = "done"
    /\ data = join(CaseBlock(IfBlock(<<LineEcho>>)) \o IfBlock(<<>>))
    /\ OutputLines[4] = Repeat(" ", 12) \o strip(LineEcho)
    /\ state.tab = 0
    /\ ~error

\* the input lines that hold `do case` or `then case` outside quotes and
\* comments
SplitLines ==
    {i \in 1..Len(InputLines) :
        /\ DO_CASE_PATTERN(get_test_record(InputLines[i]))
        /\ CASE_SPLIT_PATTERN(InputLines[i], 1) # 0}

\* C26: the output has one line per input line and one more for each line
\* that the normalisation splits, so at least as many lines as the input
\* and at most twice as many
C26_OneOutputLinePerInputLine ==
    pc = "done" =>
        /\ Len(OutputLines) = Len(InputLines) + Cardinality(SplitLines)
        /\ Len(OutputLines) >= Len(InputLines)
        /\ Len(OutputLines) <= 2 * Len(InputLines)

\* three lines, two of them split: five lines come out
C26_Witness ==
    /\ pc = "done"
    /\ InputLines = <<LineWhileDoCase, LineEchoDoCase, LineThenCase>>
    /\ SplitLines = {1, 3}
    /\ Len(OutputLines) = 5

\* the square brackets opened and not closed in the lines before line i
RECURSIVE OpenBracketsBefore(_)
OpenBracketsBefore(i) ==
    IF i <= 1 THEN 0
    ELSE OpenBracketsBefore(i - 1)
         + SQUARE_BRACKET_OPEN(get_test_record(strip(InputLines[i - 1])))
         - SQUARE_BRACKET_CLOSE(get_test_record(strip(InputLines[i - 1])))

BracketScripts == {join(ls) : ls \in SeqsUpTo(BracketLines, MaxLines)}

\* C30: a line read when as many `]` as `[` have been seen is indented
\* according to the depth: it comes out as its text after a whole number of
\* indentation steps
C30_IndentedAfterClosingBracket ==
    (pc = "done" /\ data \in BracketScripts) =>
        \A i \in 1..Len(InputLines) :
            (strip(InputLines[i]) # <<>> /\ OpenBracketsBefore(i) = 0)
                => \E depth \in 0..Len(InputLines) :
                       OutputLines[i] = _indent_line(cfg, depth, strip(InputLines[i]))

(***************************************************************************)
(* Claims about format_bash (SpecScript), continued                        *)
(***************************************************************************)
\* the HereDoc nodes that stand on the simple commands of the tree, the
\* nodes fill_redirects is called on
RECURSIVE SimpleCommandHereDocs(_)
SimpleCommandHereDocs(node) ==
    IF node.type = "Redirect" THEN {}
    ELSE IF node.type = "SimpleCommand"
    THEN {node.redirects[k].heredoc :
              k \in {j \in 1..Len(node.redirects) : node.redirects[j].heredoc.type = "HereDoc"}}
    ELSE UNION {SimpleCommandHereDocs(ChildrenOf(node)[k]) : k \in 1..Len(ChildrenOf(node))}

\* the body the preprocessor holds in content_lines is stored under the
\* delimiter, whatever was stored there, and no other entry changes
StoresLastBody ==
    (pre_pc = "collect" /\ pre_pc' = "scan") =>
        /\ DOMAIN heredoc_content' = DOMAIN heredoc_content \cup {delimiter}
        /\ heredoc_content'[delimiter] = join(content_lines)
        /\ \A d \in DOMAIN heredoc_content \ {delimiter} :
               heredoc_content'[d] = heredoc_content[d]

IsLetter(c) == c \in Lower

\* the command and argument names of a text of SemicolonLines, in order
NamesIn(text) == SelectSeq(text, IsLetter)

\* C27: the commands written on one line with `;` between them all appear
\* in the output, in the order of the source
C27_EveryCommandOfALineKept ==
    (ast_pc = "done" /\ SourceLines \in SeqsUpTo(SemicolonLines, MaxScriptLines))
        => NamesIn(script_out) = NamesIn(pre_source)

HasRedirect(line) == Contains(line, <<">">>)
NotBlank(c) == c # " "

\* the line that closes the command of a line of RedirectLines: its last
\* token before the redirection, then the redirection
ClosingLine(line) ==
    LET at == IndexFrom(line, 1, ">")
        before == rstrip(SubSeq(line, 1, at - 1))
        token == CHOOSE k \in 1..Len(before) :
                     /\ k = 1 \/ before[k - 1] = " "
                     /\ \A j \in k..Len(before) : before[j] # " "
    IN  From(before, token) \o <<" ">> \o SelectSeq(From(line, at), NotBlank)

\* C28: the redirection written after a compound command or a function
\* body stands in the output after the closing keyword or bracket
C28_RedirectAfterCompoundKept ==
    (ast_pc = "done" /\ SourceLines \in SeqsUpTo(RedirectLines, MaxScriptLines))
        => SelectSeq(FormattedLines, HasRedirect)
               = [k \in 1..Len(SourceLines) |-> ClosingLine(SourceLines[k])]

\* C29: every word of a simple command comes out with its text, a backtick
\* substitution and a brace expansion included
C29_WordsReproduced ==
    (ast_pc = "done" /\ SourceLines \in SeqsUpTo(WordLines, MaxScriptLines))
        => FormattedLines = SourceLines

(***************************************************************************)
(* Claims about quoted words (SpecQuoted), continued                       *)
(***************************************************************************)
\* C24: whatever parts the grammar matched, the ASTBuilder builds a node
\* for the word: the step from the parse tree never ends in an error
C24_BuilderNeverRaises == [][word_pc = "build" => word_pc' # "error"]_vars

(***************************************************************************)
(* Claims about interleaved calls of beautify_string (SpecCalls)           *)
(***************************************************************************)
\* what a call returns: the pair (formatted, error)
Returned(call) == [formatted |-> call.formatted, error |-> call.error]

\* C22: formatting calls share no mutable state: of two calls whose steps
\* are interleaved in any order, on one formatter object or on two, each
\* returns exactly what it returns when it runs alone
C22_InterleavedCallsReturnAsAlone ==
    \A k \in DOMAIN calls :
        calls[k].pc = "done" =>
            Returned(calls[k]) = beautify_string(calls[k].self, calls[k].data)

\* the second call has returned an indented line while the first call, on
\* another script, is still inside its loop with a block open
C22_Witness ==
    /\ calls # <<>>
    /\ calls[2].pc = "done"
    /\ calls[2].formatted # calls[2].data
    /\ calls[1].pc = "loop"
    /\ calls[1].line_num = 2
    /\ calls[1].state.tab = 1
    /\ calls[1].data # calls[2].data

====
